---- MODULE Spec2Model ----
(***************************************************************************)
(* A model of the shakenfist k3s client plugin: the k3s_create and         *)
(* k3s_delete commands of shakenfist_client_k3s/__init__.py and the        *)
(* orchestration primitives of shakenfist_client_k3s/primitives.py.        *)
(*                                                                         *)
(* The remote Shaken Fist API is the environment.  A step of a process is   *)
(* one call of the API, or the calls a loop body makes on one instance.    *)
(* Reading the namespace metadata and writing it are always two steps.     *)
(* What the API answers is chosen when the call is made: an instance, a    *)
(* network or an agent operation is only ever seen through a call, so its  *)
(* progress is decided at the call that observes it and never goes         *)
(* backwards.  The failures the API answers with in one behaviour are      *)
(* counted, and bounded by MaxFaults.                                      *)
(*                                                                         *)
(* One namespace is modelled: the metadata of two namespaces shares no     *)
(* key.                                                                    *)
(***************************************************************************)
EXTENDS Integers, Sequences, FiniteSets, TLC

\* ------------------------------------------------------------------ bounds

\* Instances the API hands out in one behaviour.
MaxInst == 3
\* Failures the environment answers with in one behaviour: a command's
\* non-zero return code, an operation's error state, a failed call, an
\* instance removed behind the program's back.
MaxFaults == 1
\* Largest --worker-count / expansion count an invocation is given.
MaxWorkers == 1
\* Largest --metal-address-count an invocation is given.
MaxAddrs == 2
\* Commands in the install batch and in the metallb batch of k3s_create
\* (the program issues 8 and 7; the model issues this many of each).
BatchLen == 1

\* ------------------------------------------------------- program constants

\* 'apt-get update', 'apt-get dist-upgrade -y'
OsUpdateCmds == 2
\* 'sudo apt-get update', 'sudo apt-get install -y', the k3s installer
ComponentCmds == 3
\* The entries a list of a kubeconfig has at most.
MaxEntries == 2
\* The pages of the Longhorn release feed that are fetched: range(5).
LonghornPages == 5
\* The hours the clock runs on after the first lookup.
MaxHours == 26
\* md['node_serial'] of a new record
FirstSerial == 1
\* The age in hours past which the version cache is refreshed.
TTL == 24

Names == {"a", "b"}
Actors == {1, 2}
Channels == {"stable", "bogus"}
\* The release feed: channel name -> latest version.
Feed == [c \in {"stable"} |-> "v1"]
\* --network: none given, the name of a network that exists, a name that
\* names nothing.
NetArgs == {"none", "user", "ghost"}

VARIABLES
    nsIndex,        \* namespace metadata item CLUSTER_LIST
    nsRecord,       \* namespace metadata items METADATA_KEY % name
    versionCache,   \* namespace metadata item VERSION_CACHE_KEY
    longhornCache,  \* namespace metadata item LONGHORN_VERSION_CACHE_KEY
    now,            \* time.time(), in hours
    networks,       \* the API's networks, by uuid: their state
    instances,      \* the API's instances, by uuid
    routes,         \* the floating addresses routed, by address: the network
    env,            \* the failures the environment may still answer with,
                    \* and whether it may answer "not yet"
    epoch,          \* history: the records initialised so far, by name
    proc            \* the invoking processes

vars == <<nsIndex, nsRecord, versionCache, longhornCache,
          now, networks, instances, routes,
          env, epoch, proc>>

\* ------------------------------------------------------------------- data

NoIndex == [has |-> FALSE, names |-> <<>>]

NoCache == [has |-> FALSE, updated |-> 0, releases |-> <<>>]

\* The Longhorn version cache that is not there.  releases: the tags of
\* the releases; latest: the greatest of their versions.
NoLonghornCache ==
    [has |-> FALSE, updated |-> 0, releases |-> {}, latest |-> 0]

\* A cluster record.  has = FALSE: the key is not in the namespace metadata.
\* hasRouted, hasApi: the keys 'routed_addresses' and 'api_address_*' are in
\* the dict.  node_network 0 is the empty list k3s_delete stores.
NoRecord ==
    [has |-> FALSE, name |-> "-", state |-> "-", k3s_version |-> "-",
     node_serial |-> 0, node_network |-> 0, node_token |-> "None",
     control_plane_nodes |-> <<>>, worker_nodes |-> <<>>,
     hasApi |-> FALSE, api_address_inner |-> "-", api_address_floating |-> "-",
     api_inner_address |-> "-", api_floating_address |-> "-",
     kubeconfig |-> "-", hasRouted |-> FALSE, routed_addresses |-> <<>>,
     server_token |-> "-"]

NoReport == [instance |-> 0, op |-> 0, command |-> <<>>, rc |-> 0]

\* History: what an invocation of k3s_create for a name that is taken found
\* when it began.
NoBefore ==
    [taken |-> FALSE, index |-> NoIndex, records |-> <<>>, networks |-> <<>>,
     instances |-> <<>>]

\* The process between invocations.  gone is history: the instances
\* k3s_delete asked for and did not find.  chan and force are the arguments
\* of a version lookup called on its own; kubeconfig is the file as
\* _await_fetch returned it, where the rewrite of it is looked at; token is
\* the token the commands of a batch are formatted with; releases is the
\* dict get_longhorn_release fills from the pages of the feed.
IdleProc ==
    [pc |-> "idle", cmd |-> "-", name |-> "-", wc |-> 0, mac |-> 0,
     snapIndex |-> NoIndex, all_clusters |-> <<>>, md |-> NoRecord,
     net |-> 0, release |-> "-", waiting |-> <<>>, todo |-> <<>>,
     pending |-> {}, instances |-> <<>>, aops |-> <<>>, earlier |-> <<>>,
     new_nodes |-> <<>>, inst |-> 0, i |-> 0, ncmds |-> 0, cmd_tag |-> "-",
     ret |-> "-", aop |-> <<>>, seen |-> "-", report |-> NoReport,
     outcome |-> "-", before |-> NoBefore, gone |-> 0,
     chan |-> "-", force |-> FALSE, kubeconfig |-> "-", token |-> "-",
     releases |-> {}]

Range(s) == {s[k] : k \in 1..Len(s)}

Contains(s, x) == \E k \in 1..Len(s) : s[k] = x

\* list.remove(x): the first occurrence goes.
RECURSIVE Remove(_, _)
Remove(s, x) ==
    IF s = <<>> THEN <<>>
    ELSE IF Head(s) = x THEN Tail(s)
    ELSE <<Head(s)>> \o Remove(Tail(s), x)

\* 'k3s-%s-node-%03d' % (name, serial)
NodeName(name, serial) == <<name, serial>>

\* --------------------------------------------------------- the environment

\* The environment after it has answered with n failures.
Spend(n) == [env EXCEPT !.faults = @ - n]

\* An agent operation as instance_execute and instance_get return it.
\* token is the K3S_TOKEN the command line carries, "-" when it carries none.
NewOp(tag, k) ==
    [cmd |-> <<tag, k>>, state |-> "queued", rc |-> 0, token |-> "-"]

\* The K3S_TOKEN of command k of a batch: the join command of k3s_create
\* (lines 395-400) and the last command of install_k3s_component (lines
\* 393-398) carry the token they were given.
K3sToken(tag, k, token) ==
    IF tag = "join" \/ (tag = "component" /\ k = ComponentCmds) THEN token
    ELSE "-"

\* The results an operation may end with: a command completes with a return
\* code or ends in error, a fetch completes or ends in error.
Endings(op) ==
    {[op EXCEPT !.state = "complete"]}
    \cup {[op EXCEPT !.state = "complete", !.rc = 1] :
             x \in {y \in {op.cmd[1]} : y # "get" /\ env.faults > 0}}
    \cup {[op EXCEPT !.state = "error"] : x \in {y \in {1} : env.faults > 0}}

\* What a call may find an operation in, given what it was last seen in.
Advance(op) ==
    IF op.state # "queued" THEN {op}
    ELSE Endings(op) \cup {op2 \in {op} : env.slow}

\* 1 when the operation is found failed: in error, or with a non-zero code.
Failed(op) == IF op.state = "error" \/ op.rc # 0 THEN 1 ELSE 0

RECURSIVE Failures(_)
Failures(ops) ==
    IF ops = <<>> THEN 0 ELSE Failed(Head(ops)) + Failures(Tail(ops))

RECURSIVE Products(_)
Products(ops) ==
    IF ops = <<>> THEN {<<>>}
    ELSE {<<op>> \o rest : op \in Advance(Head(ops)), rest \in Products(Tail(ops))}

\* get_instance_agentoperations, as await_idle reads it.  await_idle learns
\* whether an operation is still to end: while one is, nothing of what it
\* saw is kept; when none is, how each has ended.
AdvanceAll(ops) ==
    {v \in Products(ops) :
        /\ Failures(v) - Failures(ops) <= env.faults
        /\ \/ v = ops
           \/ \A k \in 1..Len(v) : v[k].state # "queued"}

\* create_instance: the instance the API starts.  epoch is history: the
\* lifetime of the cluster name the instance was created in.
NewInstance(name, serial, net, ep) ==
    [node_name |-> NodeName(name, serial), network |-> net,
     state |-> "creating", agent_state |-> "none", ops |-> <<>>,
     cluster |-> name, epoch |-> ep]

\* get_instance: the states an instance may be found in while it boots.
BootStates(inst) ==
    {s \in [state : {"creating", "created"}, agent_state : {"none", "ready"}] :
        /\ inst.state = "created" => s.state = "created"
        /\ inst.agent_state = "ready" => s.agent_state = "ready"
        /\ ~env.slow => (s.state = "created" /\ s.agent_state = "ready")}

\* get_network: None for a name that names no network and for one deleted.
GetNetwork(uuid) ==
    IF uuid \in 1..Len(networks) /\ networks[uuid] # "deleted" THEN uuid ELSE 0

\* --network: the network of that name.  The one network that exists
\* before any invocation is the first of networks.
NetOfArg(arg) == IF arg = "user" THEN GetNetwork(Len(<<"user">>)) ELSE 0

\* The operations of instance uuid with one more submitted.
Submit(uuid, tag, k) ==
    [instances EXCEPT ![uuid].ops = Append(@, NewOp(tag, k))]

Op(id) == instances[id[1]].ops[id[2]]

\* ------------------------------------------------------- the process steps

P(a) == proc[a]

Set(a, p) == proc' = [proc EXCEPT ![a] = p]

\* sys.exit, an uncaught exception, or the command's last line: what is
\* kept of the process is what it did and how it ended.
Exit(p, how) ==
    [IdleProc EXCEPT !.pc = "exited", !.cmd = p.cmd, !.name = p.name,
                     !.md = p.md, !.aops = p.aops, !.earlier = p.earlier,
                     !.new_nodes = p.new_nodes, !.report = p.report,
                     !.outcome = how, !.before = p.before, !.gone = p.gone,
                     !.chan = p.chan, !.force = p.force]

\* The next invocation starts from nothing.
Return(a) ==
    /\ P(a).pc = "exited"
    /\ Set(a, IdleProc)
    /\ UNCHANGED <<nsIndex, nsRecord, versionCache, longhornCache, now,
                   networks, instances, routes, env, epoch>>

\* The list a wait loop goes through on its next pass: a copy of what is
\* still waited for.
NextPass(waiting) == waiting

\* ------------------------------------------------------- _get_k3s_release

\* The cache taken as not there, whatever is stored.
AlwaysStale(force) == NoCache

\* The version cache as the resolver works on it: the stored one, or
\* {'updated': 0} when a refresh is forced.
CacheRead(force) ==
    IF force \/ ~versionCache.has THEN NoCache ELSE versionCache

\* The test that finds a cache of TTL hours too old.
NeedsRefreshAtTTL(cache) == now - cache.updated >= TTL

\* time.time() - updated > 24 * 3600
NeedsRefresh(cache) == now - cache.updated > TTL

\* The cache after the lookup, given the feed's answer.
CacheAfter(cache, feedOk) ==
    IF NeedsRefresh(cache) /\ feedOk
    THEN [has |-> TRUE, updated |-> now, releases |-> Feed]
    ELSE cache

\* The cache written whenever a refresh is due, whatever the feed answered.
StampedUnchecked(cache, feedOk) ==
    IF NeedsRefresh(cache)
    THEN [has |-> TRUE, updated |-> now, releases |-> Feed]
    ELSE versionCache

\* The item VERSION_CACHE_KEY after the lookup: set_namespace_metadata_item
\* (lines 72-73) is past the status check that exits (lines 56-61).
Written(cache, feedOk) ==
    IF NeedsRefresh(cache) /\ feedOk THEN CacheAfter(cache, feedOk)
    ELSE versionCache

\* ------------------------------------------------------------ k3s_create

\* History: the stores as an invocation for a name in the index, or with a
\* record, finds them.
Before(name) ==
    IF (nsIndex.has /\ Contains(nsIndex.names, name)) \/ nsRecord[name].has
    THEN [taken |-> TRUE, index |-> nsIndex, records |-> nsRecord,
          networks |-> networks, instances |-> instances]
    ELSE NoBefore

\* The name check as the first step.
CheckFirst == "c_check"

\* Line 230: the first call of k3s_create is _get_k3s_release.
FirstStep == "c_release"

\* An invocation: name and worker_count.  The other arguments are drawn
\* where the code first reads them.
CreateStart(a, in) ==
    /\ P(a).pc = "idle"
    /\ \E name \in in.names, wc \in in.workers :
          /\ Len(instances) + 1 + wc <= MaxInst
          /\ Set(a, [IdleProc EXCEPT !.pc = FirstStep, !.cmd = "create",
                                     !.name = name, !.wc = wc,
                                     !.before = Before(name)])
    /\ UNCHANGED <<nsIndex, nsRecord, versionCache, longhornCache, now,
                   networks, instances, routes, env, epoch>>

\* _get_k3s_release (line 230), with the release channel and the refresh
\* flag of the invocation: the feed answers or fails; an unknown channel
\* ends the invocation.
CreateRelease(a, in) ==
    /\ P(a).pc = "c_release"
    /\ \E chan \in in.chans, force \in in.forces,
          feedOk \in {TRUE} \cup {x \in {FALSE} : env.faults > 0} :
          LET cache == CacheRead(force)
              after == CacheAfter(cache, feedOk)
          IN  IF NeedsRefresh(cache) /\ ~feedOk
              THEN /\ Set(a, Exit(P(a), "feed_error"))
                   /\ env' = Spend(1)
                   /\ versionCache' = Written(cache, feedOk)
              ELSE /\ versionCache' = Written(cache, feedOk)
                   /\ feedOk
                   /\ UNCHANGED env
                   /\ IF chan \in DOMAIN after.releases
                      THEN Set(a, [P(a) EXCEPT !.pc = "c_check",
                                      !.release = after.releases[chan]])
                      ELSE Set(a, Exit(P(a), "unknown_channel"))
    /\ UNCHANGED <<nsIndex, nsRecord, longhornCache, now, networks, instances,
                   routes, epoch>>

\* The name check that looks for the record only.
RecordOnlyTaken(all_clusters, name) == nsRecord[name].has

\* Whether k3s_create finds the name taken (lines 252-257).
NameTaken(all_clusters, name) ==
    Contains(all_clusters, name) \/ nsRecord[name].has

\* Lines 249-258: read the namespace metadata, check the name, append it.
CreateCheck(a) ==
    /\ P(a).pc = "c_check"
    /\ LET all_clusters == IF nsIndex.has THEN nsIndex.names ELSE <<>>
       IN  IF NameTaken(all_clusters, P(a).name)
           THEN Set(a, Exit(P(a), "name_taken"))
           ELSE Set(a, [P(a) EXCEPT !.pc = "c_register",
                           !.all_clusters = Append(all_clusters, P(a).name)])
    /\ UNCHANGED <<nsIndex, nsRecord, versionCache, longhornCache, now,
                   networks, instances, routes, env, epoch>>

\* Line 259: write the index.
CreateRegister(a) ==
    /\ P(a).pc = "c_register"
    /\ nsIndex' = [has |-> TRUE, names |-> P(a).all_clusters]
    /\ Set(a, [P(a) EXCEPT !.pc = "c_network", !.all_clusters = <<>>])
    /\ UNCHANGED <<nsRecord, versionCache, longhornCache, now, networks,
                   instances, routes, env, epoch>>

\* Lines 265-274: the network given, or a new one.
CreateNetwork(a, in) ==
    /\ P(a).pc = "c_network"
    /\ \E netarg \in in.nets :
          IF netarg # "none"
          THEN /\ IF NetOfArg(netarg) = 0
                  THEN Set(a, Exit(P(a), "no_network"))
                  ELSE Set(a, [P(a) EXCEPT !.pc = "c_initmd",
                                           !.net = NetOfArg(netarg)])
               /\ UNCHANGED networks
          ELSE /\ networks' = Append(networks, "creating")
               /\ Set(a, [P(a) EXCEPT !.pc = "c_netwait",
                                      !.net = Len(networks) + 1])
    /\ UNCHANGED <<nsIndex, nsRecord, versionCache, longhornCache, now,
                   instances, routes, env, epoch>>

\* Lines 275-279: poll the new network until it is created.
CreateNetWait(a) ==
    /\ P(a).pc = "c_netwait"
    /\ \E st \in {"created"} \cup {x \in {"creating"} : env.slow} :
          /\ networks' = [networks EXCEPT ![P(a).net] = st]
          /\ Set(a, [P(a) EXCEPT !.pc = IF st = "created" THEN "c_initmd"
                                        ELSE "c_netwait"])
    /\ UNCHANGED <<nsIndex, nsRecord, versionCache, longhornCache, now,
                   instances, routes, env, epoch>>

\* A record that starts as created.
BornCreated(name, release, net) ==
    [NoRecord EXCEPT !.has = TRUE, !.name = name, !.state = "created",
                     !.k3s_version = release, !.node_serial = FirstSerial,
                     !.node_network = net]

\* The record k3s_create starts from (lines 284-297).
InitialRecord(name, release, net) ==
    [NoRecord EXCEPT !.has = TRUE, !.name = name, !.state = "initial",
                     !.k3s_version = release, !.node_serial = FirstSerial,
                     !.node_network = net]

\* Line 298
CreateInitMd(a) ==
    /\ P(a).pc = "c_initmd"
    /\ LET md == InitialRecord(P(a).name, P(a).release, P(a).net)
       IN  /\ nsRecord' = [nsRecord EXCEPT ![P(a).name] = md]
           /\ Set(a, [P(a) EXCEPT !.pc = "c_inst", !.md = md, !.i = 0,
                                  !.release = "-"])
    /\ epoch' = [epoch EXCEPT ![P(a).name] = @ + 1]
    /\ UNCHANGED <<nsIndex, versionCache, longhornCache, now, networks,
                   instances, routes, env>>

\* The serial that stays where it is.
SameSerial(serial) == serial

\* The serial after an instance was created with it.
NextSerial(serial) == serial + 1

\* _create_instance (lines 90-115): the instance is created under the name
\* the serial gives, and the serial of the working copy goes up.
CreateInst(a) ==
    /\ P(a).pc = "c_inst"
    /\ instances' = Append(instances,
                        NewInstance(P(a).md.name, P(a).md.node_serial,
                                    P(a).md.node_network, epoch[P(a).md.name]))
    /\ Set(a, [P(a) EXCEPT !.pc = "c_persist", !.inst = Len(instances) + 1,
                           !.md.node_serial = NextSerial(@)])
    /\ UNCHANGED <<nsIndex, nsRecord, versionCache, longhornCache, now,
                   networks, routes, env, epoch>>

AllNodes(md) == md.control_plane_nodes \o md.worker_nodes

\* The control plane node joins its list; a worker joins none.
ControlPlaneEnlisted(md, i, uuid) ==
    IF i = 0
    THEN [md EXCEPT !.control_plane_nodes = Append(@, uuid)]
    ELSE md

\* Lines 306 and 314: the uuid joins its role list, the first instance as
\* the control plane node, the others as workers.
Enlisted(md, i, uuid) ==
    IF i = 0
    THEN [md EXCEPT !.control_plane_nodes = Append(@, uuid)]
    ELSE [md EXCEPT !.worker_nodes = Append(@, uuid)]

\* Lines 306-307 and 314-315: the uuid joins its role list and the record is
\* written; the first instance is the control plane node, the next
\* worker_count are workers.
CreatePersist(a) ==
    /\ P(a).pc = "c_persist"
    /\ LET md == Enlisted(P(a).md, P(a).i, P(a).inst)
       IN  /\ nsRecord' = [nsRecord EXCEPT ![P(a).name] = md]
           /\ IF P(a).i < P(a).wc
              THEN Set(a, [P(a) EXCEPT !.pc = "c_inst", !.md = md, !.inst = 0,
                                       !.i = @ + 1])
              ELSE Set(a, [P(a) EXCEPT !.pc = "c_boot", !.md = md, !.inst = 0,
                                       !.i = 0, !.wc = 0,
                                       !.new_nodes = AllNodes(md),
                                       !.waiting = AllNodes(md),
                                       !.todo = AllNodes(md)])
    /\ UNCHANGED <<nsIndex, versionCache, longhornCache, now, networks,
                   instances, routes, env, epoch>>

\* The test that looks at the instance state only.
CreatedOnly(s) == s.state = "created"

\* The test no instance passes.
ReadyNever(s) == FALSE

\* The test of await_boot and _await_boot on the instance as fetched.
Ready(s) == s.state = "created" /\ s.agent_state = "ready"

\* _await_boot (lines 118-133), one instance of one pass: the instance is
\* fetched; one found created with its agent ready is sent the two OS update
\* commands and leaves the wait set.  The operations returned are dropped.
CreateBoot(a) ==
    /\ P(a).pc = "c_boot"
    /\ LET uuid == Head(P(a).todo)
       IN  \E s \in BootStates(instances[uuid]) :
              LET waiting == IF Ready(s) THEN Remove(P(a).waiting, uuid)
                             ELSE P(a).waiting
                  todo == Tail(P(a).todo)
                  seen == [instances[uuid] EXCEPT !.state = s.state,
                                                  !.agent_state = s.agent_state]
              IN  /\ instances' =
                        [instances EXCEPT ![uuid] =
                            IF Ready(s)
                            THEN [seen EXCEPT !.ops =
                                    @ \o [k \in 1..OsUpdateCmds |-> NewOp("os", k)]]
                            ELSE seen]
                  /\ IF todo # <<>>
                     THEN Set(a, [P(a) EXCEPT !.waiting = waiting, !.todo = todo])
                     ELSE IF waiting # <<>>
                     THEN Set(a, [P(a) EXCEPT !.waiting = waiting,
                                              !.todo = NextPass(waiting)])
                     ELSE Set(a, [P(a) EXCEPT !.pc = "c_addr", !.waiting = <<>>,
                                              !.todo = <<>>])
    /\ UNCHANGED <<nsIndex, nsRecord, versionCache, longhornCache, now,
                   networks, routes, env, epoch>>

\* ------------------------------------ submit, await idle, reap (a batch)

\* The batch is over: the process goes on after the call.
AfterBatch(p) ==
    [p EXCEPT !.pc = p.ret, !.ret = "-", !.earlier = @ \o p.aops, !.aops = <<>>,
              !.i = 0, !.seen = "-", !.instances = <<>>, !.waiting = <<>>,
              !.todo = <<>>, !.ncmds = 0, !.cmd_tag = "-", !.token = "-"]

\* for aop in aops: reap_execute(ctx, aop)
EnterReap(p) ==
    IF p.aops = <<>> THEN AfterBatch(p)
    ELSE [p EXCEPT !.pc = "x_reap", !.i = 1, !.seen = "queued",
                   !.waiting = <<>>, !.todo = <<>>]

\* await_idle(ctx, instance_uuids): waiting = copy.copy(instances)
EnterIdle(p, idle) ==
    IF idle = <<>> THEN EnterReap(p)
    ELSE [p EXCEPT !.pc = "x_idle", !.waiting = idle, !.todo = idle, !.i = 0]

\* A batch: ncmds commands for each of the targets, then await_idle over
\* idle, then every operation reaped, then on at ret.
EnterExec(p, targets, ncmds, tag, idle, ret) ==
    LET q == [p EXCEPT !.ret = ret, !.aops = <<>>, !.i = 0]
    IN  IF ncmds * Len(targets) = 0 THEN EnterIdle(q, idle)
        ELSE [q EXCEPT !.pc = "x_submit", !.instances = targets,
                       !.waiting = idle, !.ncmds = ncmds, !.cmd_tag = tag]

\* execute_and_await (lines 306-310): one instance_execute; the commands in
\* order, each sent to every instance.
ExecSubmit(a) ==
    /\ P(a).pc = "x_submit"
    /\ LET n == Len(P(a).instances)
           uuid == P(a).instances[(P(a).i % n) + 1]
           aops == Append(P(a).aops, <<uuid, Len(instances[uuid].ops) + 1>>)
           k == (P(a).i \div n) + 1
           op == [NewOp(P(a).cmd_tag, k) EXCEPT
                     !.token = K3sToken(P(a).cmd_tag, k, P(a).token)]
       IN  /\ instances' = [instances EXCEPT ![uuid].ops = Append(@, op)]
           /\ IF P(a).i + 1 < P(a).ncmds * n
              THEN Set(a, [P(a) EXCEPT !.aops = aops, !.i = @ + 1])
              ELSE Set(a, EnterIdle([P(a) EXCEPT !.aops = aops], P(a).waiting))
    /\ UNCHANGED <<nsIndex, nsRecord, versionCache, longhornCache, now,
                   networks, routes, env, epoch>>

\* await_idle's count for one instance: the operations whose state is not
\* 'complete'.
Incomplete(ops) == Cardinality({k \in 1..Len(ops) : ops[k].state # "complete"})

\* await_idle (lines 225-246), one instance of one pass: its operations are
\* listed; with none incomplete it leaves the wait set.
IdlePoll(a) ==
    /\ P(a).pc = "x_idle"
    /\ LET uuid == Head(P(a).todo)
       IN  \E v \in AdvanceAll(instances[uuid].ops) :
              LET waiting == IF Incomplete(v) = 0 THEN Remove(P(a).waiting, uuid)
                             ELSE P(a).waiting
                  todo == Tail(P(a).todo)
              IN  /\ instances' = [instances EXCEPT ![uuid].ops = v]
                  /\ env' = Spend(Failures(v) - Failures(instances[uuid].ops))
                  /\ IF todo # <<>>
                     THEN Set(a, [P(a) EXCEPT !.waiting = waiting, !.todo = todo])
                     ELSE IF waiting # <<>>
                     THEN Set(a, [P(a) EXCEPT !.waiting = waiting,
                                              !.todo = NextPass(waiting)])
                     ELSE Set(a, EnterReap(P(a)))
    /\ UNCHANGED <<nsIndex, nsRecord, versionCache, longhornCache, now,
                   networks, routes, epoch>>

\* reap_execute returning normally whatever the return code.
AnyCodeVerdict(op) == IF op.state # "complete" THEN "poll" ELSE "return"

\* What reap_execute does with the operation as it has just fetched it:
\* poll again, go on, or report the failure and exit.
ReapVerdict(op) ==
    IF op.state # "complete" THEN "poll"
    ELSE IF op.rc # 0 THEN "exit"
    ELSE "return"

\* What reap_execute prints of a failed operation: the command line and the
\* results (return code, stdout, stderr) of the operation it has fetched.
\* The results of an operation are its rc here.
ReapReport(id, op) == [instance |-> id[1], op |-> id[2], command |-> op.cmd,
                       rc |-> op.rc]

\* reap_execute (lines 268-285): the operation is fetched again; complete
\* with return code 0 it is done, complete with another the process exits,
\* otherwise the loop goes round.
ReapPoll(a) ==
    /\ P(a).pc = "x_reap"
    /\ LET id == P(a).aops[P(a).i]
       IN  \E op \in Advance(Op(id)) :
              /\ instances' = [instances EXCEPT ![id[1]].ops[id[2]] = op]
              /\ env' = Spend(Failed(op) - Failed(Op(id)))
              /\ CASE ReapVerdict(op) = "poll" ->
                        Set(a, [P(a) EXCEPT !.seen = op.state])
                   [] ReapVerdict(op) = "exit" ->
                        Set(a, Exit([P(a) EXCEPT !.report = ReapReport(id, op)],
                                    "command_failed"))
                   [] OTHER ->
                        IF P(a).i < Len(P(a).aops)
                        THEN Set(a, [P(a) EXCEPT !.i = @ + 1, !.seen = "queued"])
                        ELSE Set(a, AfterBatch(P(a)))
    /\ UNCHANGED <<nsIndex, nsRecord, versionCache, longhornCache, now,
                   networks, routes, epoch>>

\* ------------------------------------------------- k3s_create, continued

\* Lines 324-327 and 333-359: the addresses of the first control plane node
\* are recorded, and the configuration and install commands go to it.
CreateAddr(a) ==
    /\ P(a).pc = "c_addr"
    /\ LET md == [P(a).md EXCEPT !.hasApi = TRUE, !.api_address_inner = "inner",
                                 !.api_address_floating = "floating"]
       IN  /\ nsRecord' = [nsRecord EXCEPT ![P(a).name] = md]
           /\ Set(a, EnterExec([P(a) EXCEPT !.md = md],
                               <<md.control_plane_nodes[1]>>, BatchLen, "install",
                               AllNodes(md), "c_get_kc"))
    /\ UNCHANGED <<nsIndex, versionCache, longhornCache, now, networks,
                   instances, routes, env, epoch>>

\* Lines 369-370 and 388-389: instance_get of a file of the first control
\* plane node.
CreateGet(a) ==
    /\ P(a).pc \in {"c_get_kc", "c_get_tok"}
    /\ LET uuid == P(a).md.control_plane_nodes[1]
       IN  /\ instances' = Submit(uuid, "get", 1)
           /\ Set(a, [P(a) EXCEPT
                        !.pc = IF P(a).pc = "c_get_kc" THEN "c_fetch_kc"
                               ELSE "c_fetch_tok",
                        !.aop = <<uuid, Len(instances[uuid].ops) + 1>>,
                        !.seen = "queued"])
    /\ UNCHANGED <<nsIndex, nsRecord, versionCache, longhornCache, now,
                   networks, routes, env, epoch>>

\* _await_fetch (lines 159-168) and what k3s_create does with the content
\* (lines 371-383, 390-391): the operation is polled until it is complete;
\* then the kubeconfig, or the node token, is stored in the record.  After
\* the token the workers are sent the join command (lines 395-400).
CreateFetch(a) ==
    /\ P(a).pc \in {"c_fetch_kc", "c_fetch_tok"}
    /\ LET id == P(a).aop
       IN  \E op \in Advance(Op(id)) :
              /\ instances' = [instances EXCEPT ![id[1]].ops[id[2]] = op]
              /\ env' = Spend(Failed(op) - Failed(Op(id)))
              /\ IF op.state # "complete"
                 THEN /\ Set(a, [P(a) EXCEPT !.seen = op.state])
                      /\ UNCHANGED nsRecord
                 ELSE LET md == IF P(a).pc = "c_fetch_kc"
                                THEN [P(a).md EXCEPT !.kubeconfig = "kubeconfig"]
                                ELSE [P(a).md EXCEPT !.node_token = "token"]
                          q == [P(a) EXCEPT !.md = md, !.aop = <<>>, !.seen = "-"]
                      IN  /\ nsRecord' = [nsRecord EXCEPT ![P(a).name] = md]
                          /\ IF P(a).pc = "c_fetch_kc"
                             THEN Set(a, [q EXCEPT !.pc = "c_get_tok"])
                             ELSE Set(a, EnterExec([q EXCEPT !.token = md.node_token],
                                                   md.worker_nodes, 1, "join",
                                                   AllNodes(md), "c_route"))
    /\ UNCHANGED <<nsIndex, versionCache, longhornCache, now, networks, routes,
                   epoch>>

\* route_network_address: a new floating address routed to the network, or
\* nothing, or the call fails.
RouteAnswers == {"address"} \cup {x \in {"nothing", "raise"} : env.faults > 0}

\* metal_address_count: read when the loop of line 412 begins.
AddressCount(p, in) == IF p.i = 0 THEN in.addrs ELSE {p.mac}

\* md['routed_addresses'] = [] (line 411), before the first address.
RouteBase(p) ==
    IF p.i = 0
    THEN [p.md EXCEPT !.hasRouted = TRUE, !.routed_addresses = <<>>]
    ELSE p.md

\* Lines 411-416: one route_network_address of the metal_address_count.
CreateRoute(a, in) ==
    /\ P(a).pc = "c_route"
    /\ \E mac \in AddressCount(P(a), in), ans \in RouteAnswers :
          /\ P(a).i < mac
          /\ CASE ans = "address" ->
                 /\ routes' = Append(routes, P(a).md.node_network)
                 /\ Set(a, [P(a) EXCEPT !.i = @ + 1, !.mac = mac,
                              !.md = [RouteBase(P(a)) EXCEPT !.routed_addresses =
                                        Append(@, Len(routes) + 1)]])
                 /\ UNCHANGED env
            [] ans = "nothing" ->
                 /\ Set(a, [P(a) EXCEPT !.i = @ + 1, !.mac = mac,
                                        !.md = RouteBase(P(a))])
                 /\ env' = Spend(1)
                 /\ UNCHANGED routes
            [] OTHER ->
                 /\ Set(a, Exit([P(a) EXCEPT !.md = RouteBase(P(a))], "api_error"))
                 /\ env' = Spend(1)
                 /\ UNCHANGED routes
    /\ UNCHANGED <<nsIndex, nsRecord, versionCache, longhornCache, now,
                   networks, instances, epoch>>

\* Lines 417-453: the record with the addresses is written, and the metallb
\* commands go to the first control plane node.
CreateRoutePersist(a, in) ==
    /\ P(a).pc = "c_route"
    /\ P(a).i \in AddressCount(P(a), in)
    /\ LET md == RouteBase(P(a))
       IN  /\ nsRecord' = [nsRecord EXCEPT ![P(a).name] = md]
           /\ Set(a, EnterExec([P(a) EXCEPT !.md = md, !.mac = 0],
                               <<md.control_plane_nodes[1]>>, BatchLen, "metal",
                               AllNodes(md), "c_local"))
    /\ UNCHANGED <<nsIndex, versionCache, longhornCache, now, networks,
                   instances, routes, env, epoch>>

\* The record marked with a state of its own at the end of k3s_create.
FinishedRunning(md) == [md EXCEPT !.state = "running"]

\* The record is left as it was when the last step of k3s_create is reached.
Unfinished(md) == md

\* Line 483: the record as k3s_create leaves it.
Finished(md) == [md EXCEPT !.state = "created"]

\* What a kubectl subprocess may return.
KubectlCodes == {0} \cup {x \in {1} : env.faults > 0}

\* Lines 462-484: kubectl merges the kubeconfig into ~/.kube/config; then
\* the record is written with state created.
CreateFinish(a) ==
    /\ P(a).pc = "c_local"
    /\ \E rc \in KubectlCodes :
          IF rc # 0
          THEN /\ Set(a, Exit(P(a), "kubectl_failed"))
               /\ env' = Spend(1)
               /\ UNCHANGED nsRecord
          ELSE LET md == Finished(P(a).md)
               IN  /\ nsRecord' = [nsRecord EXCEPT ![P(a).name] = md]
                   /\ Set(a, Exit([P(a) EXCEPT !.md = md], "ok"))
                   /\ UNCHANGED env
    /\ UNCHANGED <<nsIndex, versionCache, longhornCache, now, networks,
                   instances, routes, epoch>>

\* ------------------------------------------------------------ k3s_delete

DeleteStart(a, in) ==
    /\ P(a).pc = "idle"
    /\ \E name \in in.names :
          Set(a, [IdleProc EXCEPT !.pc = "d_getmd", !.cmd = "delete",
                                  !.name = name])
    /\ UNCHANGED <<nsIndex, nsRecord, versionCache, longhornCache, now,
                   networks, instances, routes, env, epoch>>

\* Lines 576-588: the namespace metadata is read once; without a record of
\* the name the command ends.
DeleteGetMd(a) ==
    /\ P(a).pc = "d_getmd"
    /\ IF ~nsRecord[P(a).name].has
       THEN Set(a, Exit(P(a), "unknown_cluster"))
       ELSE Set(a, [P(a) EXCEPT !.pc = "d_delete", !.snapIndex = nsIndex,
                                !.md = nsRecord[P(a).name],
                                !.pending = Range(AllNodes(nsRecord[P(a).name]))])
    /\ UNCHANGED <<nsIndex, nsRecord, versionCache, longhornCache, now,
                   networks, instances, routes, env, epoch>>

\* get_instance in k3s_delete: the instance, or ResourceNotFoundException.
\* An instance may have been deleted behind the program's back, and one
\* deleted may be answered with its record or with not found.
FoundAnswers(inst) ==
    IF inst.state = "deleted" THEN {"found", "notfound"}
    ELSE {"found"} \cup {x \in {"notfound"} : env.faults > 0}

\* An instance on its way out: the program reads its state again, and
\* nothing else of it.
Dropped(inst, st) ==
    [inst EXCEPT !.state = st, !.agent_state = "none", !.ops = <<>>,
                 !.network = 0]

\* Lines 588-596, one instance: it is fetched and its deletion requested;
\* one not found is passed over.
DeleteInst(a) ==
    /\ P(a).pc = "d_delete"
    /\ P(a).pending # {}
    /\ \E uuid \in P(a).pending :
          \E ans \in FoundAnswers(instances[uuid]) :
              /\ instances' =
                    [instances EXCEPT ![uuid] =
                        Dropped(@, IF ans = "notfound" \/ @.state = "deleted"
                                   THEN "deleted" ELSE "deleting")]
              /\ env' = Spend(IF ans = "notfound" /\ instances[uuid].state # "deleted"
                              THEN 1 ELSE 0)
              /\ Set(a, [P(a) EXCEPT !.pending = @ \ {uuid},
                           !.waiting = IF ans = "found" THEN Append(@, uuid) ELSE @,
                           !.gone = IF ans = "found" THEN @ ELSE @ + 1])
    /\ UNCHANGED <<nsIndex, nsRecord, versionCache, longhornCache, now,
                   networks, routes, epoch>>

\* get_instance while the deletion is awaited: the instance as it is, or as
\* deleted, or not found.
GoneAnswers(inst) ==
    {"deleted", "notfound"} \cup {x \in {"deleting"} : env.slow /\ inst.state # "deleted"}

\* The wait loop that lets go of no instance.
GoneNever(ans) == FALSE

\* The wait loop that lets go of an instance only when it is found deleted.
GoneIfDeleted(ans) == ans = "deleted"

\* Whether the wait loop of k3s_delete takes the instance out of the wait
\* set (lines 602-606).
Gone(ans) == ans \in {"deleted", "notfound"}

\* Lines 598-609, one instance of one pass.
DeleteWait(a) ==
    /\ P(a).pc = "d_delete"
    /\ P(a).pending = {}
    /\ P(a).waiting # <<>>
    /\ LET todo0 == IF P(a).todo = <<>> THEN NextPass(P(a).waiting) ELSE P(a).todo
           uuid == Head(todo0)
       IN  \E ans \in GoneAnswers(instances[uuid]) :
              /\ instances' = [instances EXCEPT ![uuid].state =
                                  IF ans = "deleting" THEN @ ELSE "deleted"]
              /\ Set(a, [P(a) EXCEPT
                           !.waiting = IF Gone(ans) THEN Remove(@, uuid) ELSE @,
                           !.todo = Tail(todo0)])
    /\ UNCHANGED <<nsIndex, nsRecord, versionCache, longhornCache, now,
                   networks, routes, env, epoch>>

\* The record as k3s_delete empties it (lines 611-617).
Emptied(md) ==
    [md EXCEPT !.control_plane_nodes = <<>>, !.worker_nodes = <<>>,
               !.api_floating_address = "None", !.api_inner_address = "None",
               !.k3s_version = "None", !.kubeconfig = "None",
               !.node_token = "None"]

\* Lines 611-618
DeleteClear(a) ==
    /\ P(a).pc = "d_delete"
    /\ P(a).pending = {}
    /\ P(a).waiting = <<>>
    /\ LET md == Emptied(P(a).md)
       IN  /\ nsRecord' = [nsRecord EXCEPT ![P(a).name] = md]
           /\ Set(a, [P(a) EXCEPT !.pc = "d_unroute", !.md = md, !.todo = <<>>,
                                  !.i = 1])
    /\ UNCHANGED <<nsIndex, versionCache, longhornCache, now, networks,
                   instances, routes, env, epoch>>

\* No address to unroute.
NoRouted(md) == <<>>

\* md.get('routed_addresses', [])
RoutedOf(md) == IF md.hasRouted THEN md.routed_addresses ELSE <<>>

\* Lines 621-625, one address: it is unrouted; the refusal of an address not
\* routed to the network is passed over.
DeleteUnroute(a) ==
    /\ P(a).pc = "d_unroute"
    /\ P(a).i <= Len(RoutedOf(P(a).md))
    /\ LET addr == RoutedOf(P(a).md)[P(a).i]
       IN  routes' = [routes EXCEPT ![addr] =
                        IF @ = P(a).md.node_network THEN 0 ELSE @]
    /\ Set(a, [P(a) EXCEPT !.i = @ + 1])
    /\ UNCHANGED <<nsIndex, nsRecord, versionCache, longhornCache, now,
                   networks, instances, env, epoch>>

\* The networks when only one that k3s_create allocated is deleted: the
\* network there was before any invocation is left.
AllocatedOnlyDeleted(uuid) ==
    IF uuid = 1 THEN networks ELSE [networks EXCEPT ![uuid] = "deleted"]

\* Line 629: delete_network(md['node_network'])
NetworkDeleted(uuid) == [networks EXCEPT ![uuid] = "deleted"]

\* Lines 628-630: the node network is deleted.
DeleteNetwork(a) ==
    /\ P(a).pc = "d_unroute"
    /\ P(a).i > Len(RoutedOf(P(a).md))
    /\ IF P(a).md.node_network # 0
       THEN networks' = NetworkDeleted(P(a).md.node_network)
       ELSE UNCHANGED networks
    /\ Set(a, [P(a) EXCEPT !.pc = "d_mark", !.i = 0, !.md.node_network = 0])
    /\ UNCHANGED <<nsIndex, nsRecord, versionCache, longhornCache, now,
                   instances, routes, env, epoch>>

\* Lines 632-633
DeleteMark(a) ==
    /\ P(a).pc = "d_mark"
    /\ LET md == [P(a).md EXCEPT !.state = "deleted"]
       IN  /\ nsRecord' = [nsRecord EXCEPT ![P(a).name] = md]
           /\ Set(a, [P(a) EXCEPT !.pc = "d_record", !.md = md])
    /\ UNCHANGED <<nsIndex, versionCache, longhornCache, now, networks,
                   instances, routes, env, epoch>>

\* Line 636
DeleteRecord(a) ==
    /\ P(a).pc = "d_record"
    /\ nsRecord' = [nsRecord EXCEPT ![P(a).name] = NoRecord]
    /\ Set(a, [P(a) EXCEPT !.pc = "d_index"])
    /\ UNCHANGED <<nsIndex, versionCache, longhornCache, now, networks,
                   instances, routes, env, epoch>>

\* The index written whatever is left.
IndexKept(left) == [has |-> TRUE, names |-> left]

\* Lines 639-643: with no name left the index key is deleted, otherwise the
\* list is written.
IndexWithout(left) ==
    IF left = <<>> THEN NoIndex ELSE [has |-> TRUE, names |-> left]

\* Lines 637-643: the name leaves the index as it was read when the command
\* began; an index left empty is deleted.  list.remove of a name that is not
\* in the list raises.
DeleteIndex(a) ==
    /\ P(a).pc = "d_index"
    /\ LET all_clusters == IF P(a).snapIndex.has THEN P(a).snapIndex.names
                           ELSE <<>>
           left == Remove(all_clusters, P(a).name)
       IN  IF ~Contains(all_clusters, P(a).name)
           THEN /\ Set(a, Exit(P(a), "value_error"))
                /\ UNCHANGED nsIndex
           ELSE /\ nsIndex' = IndexWithout(left)
                /\ Set(a, [P(a) EXCEPT !.pc = "d_local", !.snapIndex = NoIndex])
    /\ UNCHANGED <<nsRecord, versionCache, longhornCache, now, networks,
                   instances, routes, env, epoch>>

\* Lines 646-654: kubectl config unset, three times.
DeleteLocal(a) ==
    /\ P(a).pc = "d_local"
    /\ \E rc \in KubectlCodes :
          /\ Set(a, Exit(P(a), IF rc # 0 THEN "kubectl_failed" ELSE "ok"))
          /\ env' = Spend(IF rc # 0 THEN 1 ELSE 0)
    /\ UNCHANGED <<nsIndex, nsRecord, versionCache, longhornCache, now,
                   networks, instances, routes, epoch>>

\* ------------------------------------------------ expansion (primitives.py)

\* What the expand-workers command runs after create_and_await_instances:
\* install_workers.
ExpandSequel == "e_join"

ExpandStart(a, in) ==
    /\ P(a).pc = "idle"
    /\ \E name \in in.names, count \in in.workers \ {0} :
          /\ Len(instances) + count <= MaxInst
          /\ Set(a, [IdleProc EXCEPT !.pc = "e_getmd", !.cmd = "expand",
                                     !.name = name, !.wc = count])
    /\ UNCHANGED <<nsIndex, nsRecord, versionCache, longhornCache, now,
                   networks, instances, routes, env, epoch>>

\* get_cluster_metadata (lines 21-29); the first use of a record that is not
\* there raises.
ExpandGetMd(a) ==
    /\ P(a).pc = "e_getmd"
    /\ IF ~nsRecord[P(a).name].has
       THEN Set(a, Exit(P(a), "unknown_cluster"))
       ELSE Set(a, [P(a) EXCEPT !.pc = "e_inst", !.md = nsRecord[P(a).name],
                                !.i = 0])
    /\ UNCHANGED <<nsIndex, nsRecord, versionCache, longhornCache, now,
                   networks, instances, routes, env, epoch>>

\* create_instance (lines 178-204): get_cluster_metadata hands back the
\* dict the process holds (lines 26-29), and the instance is created under
\* the name its serial gives.
ExpandInst(a) ==
    /\ P(a).pc = "e_inst"
    /\ instances' = Append(instances,
                        NewInstance(P(a).md.name, P(a).md.node_serial,
                                    P(a).md.node_network, epoch[P(a).name]))
    /\ Set(a, [P(a) EXCEPT !.pc = "e_persist", !.inst = Len(instances) + 1])
    /\ UNCHANGED <<nsIndex, nsRecord, versionCache, longhornCache, now,
                   networks, routes, env, epoch>>

\* create_and_await_instances, lines 294-297: the serial goes up, the uuid
\* joins the worker list, the record is written.  After the last instance
\* await_boot starts.
ExpandPersist(a) ==
    /\ P(a).pc = "e_persist"
    /\ LET md == [P(a).md EXCEPT !.node_serial = NextSerial(@),
                                 !.worker_nodes = Append(@, P(a).inst)]
           new == Append(P(a).new_nodes, P(a).inst)
       IN  /\ nsRecord' = [nsRecord EXCEPT ![P(a).name] = md]
           /\ IF P(a).i + 1 < P(a).wc
              THEN Set(a, [P(a) EXCEPT !.pc = "e_inst", !.md = md, !.inst = 0,
                                       !.i = @ + 1, !.new_nodes = new])
              ELSE Set(a, [P(a) EXCEPT !.pc = "p_boot", !.md = md, !.inst = 0,
                                       !.i = 0, !.wc = 0, !.new_nodes = new,
                                       !.waiting = new, !.todo = new])
    /\ UNCHANGED <<nsIndex, versionCache, longhornCache, now, networks,
                   instances, routes, env, epoch>>

\* await_boot (lines 207-222), one instance of one pass: the instance is
\* fetched; one found created with its agent ready leaves the wait set.
\* With the wait set empty instance_os_update sends the two OS update
\* commands to every instance and awaits them (lines 318-325).
PrimBoot(a) ==
    /\ P(a).pc = "p_boot"
    /\ LET uuid == Head(P(a).todo)
       IN  \E s \in BootStates(instances[uuid]) :
              LET waiting == IF Ready(s) THEN Remove(P(a).waiting, uuid)
                             ELSE P(a).waiting
                  todo == Tail(P(a).todo)
              IN  /\ instances' = [instances EXCEPT ![uuid].state = s.state,
                                       ![uuid].agent_state = s.agent_state]
                  /\ IF todo # <<>>
                     THEN Set(a, [P(a) EXCEPT !.waiting = waiting, !.todo = todo])
                     ELSE IF waiting # <<>>
                     THEN Set(a, [P(a) EXCEPT !.waiting = waiting,
                                              !.todo = NextPass(waiting)])
                     ELSE Set(a, EnterExec(P(a), P(a).new_nodes, OsUpdateCmds,
                                           "os", P(a).new_nodes, "e_booted"))
    /\ UNCHANGED <<nsIndex, nsRecord, versionCache, longhornCache, now,
                   networks, routes, env, epoch>>

\* create_and_await_instances, line 302: the record is written again.
ExpandBooted(a) ==
    /\ P(a).pc = "e_booted"
    /\ nsRecord' = [nsRecord EXCEPT ![P(a).name] = P(a).md]
    /\ Set(a, [P(a) EXCEPT !.pc = ExpandSequel])
    /\ UNCHANGED <<nsIndex, versionCache, longhornCache, now, networks,
                   instances, routes, env, epoch>>

\* install_workers and install_k3s_component (lines 384-399, 410-412): the
\* three commands go to every worker of the record the process holds, the
\* last of them with the node_token of that record.
ExpandJoin(a) ==
    /\ P(a).pc = "e_join"
    /\ LET md == P(a).md
       IN  Set(a, EnterExec([P(a) EXCEPT !.token = md.node_token],
                            md.worker_nodes, ComponentCmds, "component",
                            md.worker_nodes, "e_done"))
    /\ UNCHANGED <<nsIndex, nsRecord, versionCache, longhornCache, now,
                   networks, instances, routes, env, epoch>>

\* install_k3s_component, line 401
ExpandDone(a) ==
    /\ P(a).pc = "e_done"
    /\ nsRecord' = [nsRecord EXCEPT ![P(a).name] = P(a).md]
    /\ Set(a, Exit(P(a), "ok"))
    /\ UNCHANGED <<nsIndex, versionCache, longhornCache, now, networks,
                   instances, routes, env, epoch>>

\* ----------------------------------------------------------- specification

\* What the invocations of the single process are given: of addresses,
\* none or MaxAddrs.
Inputs ==
    [names |-> {"a"}, workers |-> 0..MaxWorkers, addrs |-> {0, MaxAddrs},
     nets |-> NetArgs, chans |-> Channels, forces |-> BOOLEAN]

\* The namespace before any invocation: no metadata, one network.
InitStore ==
    /\ nsIndex = NoIndex
    /\ nsRecord = [n \in Names |-> NoRecord]
    /\ versionCache = NoCache
    /\ longhornCache = NoLonghornCache
    /\ now = TTL + 1
    /\ networks = <<"created">>
    /\ routes = <<>>
    /\ epoch = [n \in Names |-> 0]

\* No instance yet, no invocation yet.
InitIdle ==
    /\ InitStore
    /\ instances = <<>>
    /\ proc = [a \in Actors |-> IdleProc]

Init ==
    /\ InitIdle
    /\ env = [faults |-> MaxFaults, slow |-> TRUE]

CreateStep(a, in) ==
    \/ CreateRelease(a, in)
    \/ CreateCheck(a)
    \/ CreateRegister(a)
    \/ CreateNetwork(a, in)
    \/ CreateNetWait(a)
    \/ CreateInitMd(a)
    \/ CreateInst(a)
    \/ CreatePersist(a)
    \/ CreateBoot(a)
    \/ CreateAddr(a)
    \/ CreateGet(a)
    \/ CreateFetch(a)
    \/ CreateRoute(a, in)
    \/ CreateRoutePersist(a, in)
    \/ CreateFinish(a)

BatchStep(a) ==
    \/ ExecSubmit(a)
    \/ IdlePoll(a)
    \/ ReapPoll(a)

DeleteStep(a) ==
    \/ DeleteGetMd(a)
    \/ DeleteInst(a)
    \/ DeleteWait(a)
    \/ DeleteClear(a)
    \/ DeleteUnroute(a)
    \/ DeleteNetwork(a)
    \/ DeleteMark(a)
    \/ DeleteRecord(a)
    \/ DeleteIndex(a)
    \/ DeleteLocal(a)

ExpandStep(a) ==
    \/ ExpandGetMd(a)
    \/ ExpandInst(a)
    \/ ExpandPersist(a)
    \/ PrimBoot(a)
    \/ ExpandBooted(a)
    \/ ExpandJoin(a)
    \/ ExpandDone(a)

\* One process: one invocation after the other.
Next ==
    \/ CreateStart(1, Inputs)
    \/ DeleteStart(1, Inputs)
    \/ ExpandStart(1, Inputs)
    \/ CreateStep(1, Inputs)
    \/ BatchStep(1)
    \/ DeleteStep(1)
    \/ ExpandStep(1)
    \/ Return(1)

Spec == Init /\ [][Next]_vars

\* ------------------------------------------------- concurrent invocations

\* What the invocations of two processes at once are given.
ConcInputs ==
    [names |-> Names, workers |-> {0}, addrs |-> {0, MaxAddrs},
     nets |-> {"none", "user"}, chans |-> {"stable"}, forces |-> {FALSE}]

InitConc ==
    /\ InitIdle
    /\ env = [faults |-> 0, slow |-> FALSE]

\* Two processes, each running k3s_create once, their API calls interleaved.
NextConc ==
    \E a \in Actors :
        \/ CreateStart(a, ConcInputs)
        \/ CreateStep(a, ConcInputs)
        \/ BatchStep(a)

SpecConc == InitConc /\ [][NextConc]_vars

\* ------------------------------------------------ clusters side by side

\* What the invocations of one process that works on two names are given.
IndexInputs ==
    [names |-> Names, workers |-> {0}, addrs |-> {1}, nets |-> {"none"},
     chans |-> {"stable"}, forces |-> {FALSE}]

InitIndex ==
    /\ InitIdle
    /\ env = [faults |-> 0, slow |-> FALSE]

\* One process: clusters of two names created and deleted, one invocation
\* after the other.
NextIndex ==
    \/ CreateStart(1, IndexInputs)
    \/ DeleteStart(1, IndexInputs)
    \/ CreateStep(1, IndexInputs)
    \/ BatchStep(1)
    \/ DeleteStep(1)
    \/ Return(1)

SpecIndex == InitIndex /\ [][NextIndex]_vars

\* ------------------------------------------- the version lookup on its own

\* _get_k3s_release and get_k3s_release called with a release channel and
\* the refresh flag.
ReleaseStart(a) ==
    /\ P(a).pc = "idle"
    /\ \E chan \in Channels, force \in BOOLEAN :
          Set(a, [IdleProc EXCEPT !.pc = "c_release", !.cmd = "release",
                                  !.chan = chan, !.force = force])
    /\ UNCHANGED <<nsIndex, nsRecord, versionCache, longhornCache, now,
                   networks, instances, routes, env, epoch>>

\* The arguments of the lookup under way.
ReleaseArgs(p) == [chans |-> {p.chan}, forces |-> {p.force}]

\* return most_recent
ReleaseDone(a) ==
    /\ P(a).pc = "c_check"
    /\ P(a).cmd = "release"
    /\ Set(a, Exit(P(a), "ok"))
    /\ UNCHANGED <<nsIndex, nsRecord, versionCache, longhornCache, now,
                   networks, instances, routes, env, epoch>>

\* An hour passes between two lookups.
Tick ==
    /\ proc[1].pc = "idle"
    /\ now < TTL + 1 + MaxHours
    /\ now' = now + 1
    /\ UNCHANGED <<nsIndex, nsRecord, versionCache, longhornCache, networks,
                   instances, routes, env, epoch, proc>>

InitRelease ==
    /\ InitIdle
    /\ env = [faults |-> MaxFaults, slow |-> FALSE]

\* One lookup after the other, hours apart.
NextRelease ==
    \/ ReleaseStart(1)
    \/ CreateRelease(1, ReleaseArgs(proc[1]))
    \/ ReleaseDone(1)
    \/ Return(1)
    \/ Tick

SpecRelease == InitRelease /\ [][NextRelease]_vars

\* ------------------------------------------------- get_longhorn_release

\* A tag of a release: vs letters v, then the version num.
Tag(vs, num) == [vs |-> vs, num |-> num]

\* tag_name.lstrip('v')
Lstrip(tag) == [tag EXCEPT !.vs = 0]

\* parse_version(tagname), as the comparison of line 166 orders it.
ParseVersion(tagname) == tagname.num

\* What a page of the feed may hold: nothing, a release, a release and a
\* later pre-release.
FeedPages ==
    {<<>>,
     <<[tag_name |-> Tag(1, 1), prerelease |-> FALSE]>>,
     <<[tag_name |-> Tag(0, 2), prerelease |-> FALSE],
       [tag_name |-> Tag(1, 3), prerelease |-> TRUE]>>}

\* Lines 154-158: the tags of a page that are kept.
Kept(page) ==
    {Lstrip(page[k].tag_name) :
        k \in {j \in 1..Len(page) : ~page[j].prerelease}}

\* Lines 161-167: the greatest version of the releases.
Latest(releases) ==
    CHOOSE v \in {ParseVersion(t) : t \in releases} :
        \A t \in releases : ParseVersion(t) <= v

\* Lines 111-120: the cache as the lookup works on it.
LonghornRead(force) ==
    IF force \/ ~longhornCache.has THEN NoLonghornCache ELSE longhornCache

\* get_longhorn_release called with the refresh flag.
LonghornStart(a) ==
    /\ P(a).pc = "idle"
    /\ \E force \in BOOLEAN :
          Set(a, [IdleProc EXCEPT !.pc = "l_read", !.cmd = "longhorn",
                                  !.force = force])
    /\ UNCHANGED <<nsIndex, nsRecord, versionCache, longhornCache, now,
                   networks, instances, routes, env, epoch>>

\* Lines 111-127 and 175: the cache is read; one not older than 24 hours
\* gives its latest version, otherwise the pages are fetched.
LonghornLookup(a) ==
    /\ P(a).pc = "l_read"
    /\ IF NeedsRefresh(LonghornRead(P(a).force))
       THEN Set(a, [P(a) EXCEPT !.pc = "l_page", !.i = 0, !.releases = {}])
       ELSE Set(a, Exit(P(a), "ok"))
    /\ UNCHANGED <<nsIndex, nsRecord, versionCache, longhornCache, now,
                   networks, instances, routes, env, epoch>>

\* Lines 131-158, one page: a status that is not a success ends the
\* lookup; otherwise the releases of the page that are no pre-releases are
\* added.
LonghornPage(a) ==
    /\ P(a).pc = "l_page"
    /\ \/ /\ env.faults > 0
          /\ env' = Spend(1)
          /\ Set(a, Exit(P(a), "feed_error"))
       \/ /\ \E page \in FeedPages :
                Set(a, [P(a) EXCEPT
                          !.releases = @ \cup Kept(page),
                          !.i = @ + 1,
                          !.pc = IF P(a).i + 1 < LonghornPages THEN "l_page"
                                 ELSE "l_store"])
          /\ UNCHANGED env
    /\ UNCHANGED <<nsIndex, nsRecord, versionCache, longhornCache, now,
                   networks, instances, routes, epoch>>

\* Lines 161-175: the latest version is found and the cache is written.
\* With no release latest is None, and latest.to_string() raises.
LonghornStore(a) ==
    /\ P(a).pc = "l_store"
    /\ IF P(a).releases = {}
       THEN /\ Set(a, Exit(P(a), "raised"))
            /\ UNCHANGED longhornCache
       ELSE /\ longhornCache' = [has |-> TRUE, updated |-> now,
                                 releases |-> P(a).releases,
                                 latest |-> Latest(P(a).releases)]
            /\ Set(a, Exit(P(a), "ok"))
    /\ UNCHANGED <<nsIndex, nsRecord, versionCache, now, networks, instances,
                   routes, env, epoch>>

\* The times a cache a lookup finds may have been written at: more than 24
\* hours ago, 24 hours ago, just now.
Stamps == {0, 1, TTL + 1}

\* The namespace with the caches earlier lookups left.
InitFeeds ==
    /\ nsIndex = NoIndex
    /\ nsRecord = [n \in Names |-> NoRecord]
    /\ versionCache \in
          {NoCache} \cup {[has |-> TRUE, updated |-> u, releases |-> Feed] :
                            u \in Stamps}
    /\ longhornCache \in
          {NoLonghornCache}
          \cup {[has |-> TRUE, updated |-> u, releases |-> {Tag(0, 1)},
                 latest |-> 1] : u \in Stamps}
    /\ now = TTL + 1
    /\ networks = <<"created">>
    /\ routes = <<>>
    /\ epoch = [n \in Names |-> 0]
    /\ instances = <<>>
    /\ proc = [a \in Actors |-> IdleProc]
    /\ env = [faults |-> MaxFaults, slow |-> FALSE]

\* One lookup after the other, of the one release or of the other.
NextFeeds ==
    \/ ReleaseStart(1)
    \/ CreateRelease(1, ReleaseArgs(proc[1]))
    \/ ReleaseDone(1)
    \/ LonghornStart(1)
    \/ LonghornLookup(1)
    \/ LonghornPage(1)
    \/ LonghornStore(1)
    \/ Return(1)

SpecFeeds == InitFeeds /\ [][NextFeeds]_vars

\* ------------------------------------------------ reap_execute on its own

\* The operations reap_execute may be handed: as instance_execute returned
\* them, or as a later fetch found them.
ReapInputs ==
    UNION {[1..n -> UNION {{NewOp("os", k)} \cup Endings(NewOp("os", k)) :
                             k \in 1..OsUpdateCmds}] : n \in 1..2}

\* for aop in aops: reap_execute(ctx, aop), for every list of operations of
\* one instance.
InitReap ==
    /\ InitStore
    /\ env \in [faults : 0..MaxFaults, slow : BOOLEAN]
    /\ \E ops \in ReapInputs :
          /\ instances = <<[NewInstance("a", FirstSerial, 1, 1) EXCEPT
                              !.state = "created", !.agent_state = "ready",
                              !.ops = ops]>>
          /\ proc = [a \in Actors |->
                        IF a = 1
                        THEN EnterReap([IdleProc EXCEPT
                                 !.cmd = "reap", !.ret = "r_done",
                                 !.aops = [k \in 1..Len(ops) |-> <<1, k>>]])
                        ELSE IdleProc]

\* Every reap_execute of the loop has returned.
ReapDone(a) ==
    /\ P(a).pc = "r_done"
    /\ Set(a, Exit(P(a), "ok"))
    /\ UNCHANGED <<nsIndex, nsRecord, versionCache, longhornCache, now,
                   networks, instances, routes, env, epoch>>

NextReap ==
    \/ ReapPoll(1)
    \/ ReapDone(1)

\* The process keeps running: a step it can take, it takes.
SpecReap == InitReap /\ [][NextReap]_vars /\ WF_vars(NextReap)

\* -------------------------------------------------- await_boot on its own

\* The instances the wait is for, as create_instance left them or as an
\* earlier fetch found them.
BootInputs ==
    UNION {[1..n -> [state : {"creating", "created"},
                     agent_state : {"none", "ready"}]] : n \in 1..MaxInst - 1}

\* _await_boot(ctx, instances) of k3s_create and await_boot(ctx, instances)
\* of the primitives, for every list of instances of one cluster.
InitBoot ==
    /\ InitStore
    /\ env = [faults |-> 0, slow |-> TRUE]
    /\ \E f \in BootInputs, how \in {"c_boot", "p_boot"} :
          LET nodes == [u \in 1..Len(f) |-> u]
          IN  /\ instances = [u \in 1..Len(f) |->
                                [NewInstance("a", FirstSerial + u - 1, 1, 1) EXCEPT
                                    !.state = f[u].state,
                                    !.agent_state = f[u].agent_state]]
              /\ proc = [a \in Actors |->
                            IF a = 1
                            THEN [IdleProc EXCEPT
                                     !.pc = how, !.name = "a",
                                     !.cmd = IF how = "c_boot" THEN "create"
                                             ELSE "expand",
                                     !.new_nodes = nodes, !.waiting = nodes,
                                     !.todo = nodes]
                            ELSE IdleProc]

\* From now on every instance is found created with its agent ready.
Settle ==
    /\ env.slow
    /\ env' = [env EXCEPT !.slow = FALSE]
    /\ UNCHANGED <<nsIndex, nsRecord, versionCache, longhornCache, now,
                   networks, instances, routes, epoch, proc>>

NextBoot ==
    \/ CreateBoot(1)
    \/ PrimBoot(1)
    \/ Settle

\* The process keeps running: while it waits, it polls again.
SpecBoot ==
    InitBoot /\ [][NextBoot]_vars /\ WF_vars(CreateBoot(1) \/ PrimBoot(1))

\* ------------------------------------------------ the kubeconfig rewrite

\* A text is a sequence of pieces; the piece "127.0.0.1" is an occurrence of
\* that string.  A kubeconfig file is its key order and, for each leaf, the
\* text of it.

\* str.replace('127.0.0.1', floating) on one text.
Replaced(v, floating) ==
    [i \in 1..Len(v) |-> IF v[i] = "127.0.0.1" THEN floating ELSE v[i]]

\* Line 371-372: the replacement runs over the whole file, before it is
\* parsed.
ReplacedAll(file, floating) ==
    [layout |-> file.layout,
     clusters |-> [i \in 1..Len(file.clusters) |->
                     [name |-> Replaced(file.clusters[i].name, floating),
                      server |-> Replaced(file.clusters[i].server, floating)]],
     contexts |-> [i \in 1..Len(file.contexts) |->
                     [name |-> Replaced(file.contexts[i].name, floating),
                      cluster |-> Replaced(file.contexts[i].cluster, floating),
                      user |-> Replaced(file.contexts[i].user, floating)]],
     users |-> [i \in 1..Len(file.users) |->
                  [name |-> Replaced(file.users[i].name, floating)]],
     current |-> Replaced(file.current, floating)]

\* yaml.safe_load: the document; the order of the keys is not part of it.
SafeLoad(file) ==
    [clusters |-> file.clusters, contexts |-> file.contexts,
     users |-> file.users, current |-> file.current]

\* yaml.dump: the keys come out sorted.
Dump(kc) ==
    [layout |-> "sorted", clusters |-> kc.clusters, contexts |-> kc.contexts,
     users |-> kc.users, current |-> kc.current]

\* '%s.%s' % (name, namespace)
Fqcn(name, namespace) == <<name, ".", namespace>>

\* The renaming that leaves the user of the first context as it is.
RenamedButUser(kc, fqcn) ==
    [kc EXCEPT !.clusters[1].name = fqcn, !.contexts[1].name = fqcn,
               !.contexts[1].cluster = fqcn, !.users[1].name = fqcn,
               !.current = fqcn]

\* Lines 376-381.
Renamed(kc, fqcn) ==
    [kc EXCEPT !.clusters[1].name = fqcn, !.contexts[1].name = fqcn,
               !.contexts[1].cluster = fqcn, !.contexts[1].user = fqcn,
               !.users[1].name = fqcn, !.current = fqcn]

\* Lines 371-382: what k3s_create makes of the file it fetched.
Rewrite(file, fqcn, floating) ==
    Dump(Renamed(SafeLoad(ReplacedAll(file, floating)), fqcn))

\* The namespace of the invocation.
Namespace == "ns"

\* The texts of a name, and of a server URL.
NameTexts == {<<"default">>, <<"127.0.0.1">>}
ServerTexts == {<<"https://", "127.0.0.1", ":6443">>,
                <<"https://", "127.0.0.1", "0", ":6443">>}

\* The entries a list may go on with after its first.
MoreClusters == {[name |-> <<"other">>, server |-> <<"https://", "127.0.0.1">>],
                 [name |-> <<"127.0.0.1">>, server |-> <<"https://", "other">>]}
MoreContexts == {[name |-> <<"other">>, cluster |-> <<"default">>,
                  user |-> <<"127.0.0.1">>],
                 [name |-> <<"default">>, cluster |-> <<"other">>,
                  user |-> <<"default">>]}
MoreUsers == {[name |-> <<"other">>], [name |-> <<"127.0.0.1">>]}

\* The sequences over S of up to n elements.
SeqUpTo(S, n) == UNION {[1..k -> S] : k \in 0..n}

\* The files _await_fetch may return: every list with an entry at least.
Kubeconfigs ==
    [layout : {"k3s", "sorted"},
     clusters : {<<c>> \o more :
                   c \in [name : NameTexts, server : ServerTexts],
                   more \in SeqUpTo(MoreClusters, MaxEntries - 1)},
     contexts : {<<c>> \o more :
                   c \in [name : NameTexts, cluster : NameTexts,
                          user : NameTexts],
                   more \in SeqUpTo(MoreContexts, MaxEntries - 1)},
     users : {<<c>> \o more :
                c \in [name : NameTexts],
                more \in SeqUpTo(MoreUsers, MaxEntries - 1)},
     current : NameTexts]

\* k3s_create at line 371, _await_fetch about to return the file.
InitRewrite ==
    /\ InitStore
    /\ instances = <<>>
    /\ env = [faults |-> 0, slow |-> FALSE]
    /\ \E name \in Names, file \in Kubeconfigs :
          proc = [a \in Actors |->
                    IF a = 1
                    THEN [IdleProc EXCEPT
                            !.pc = "k_rewrite", !.cmd = "create",
                            !.name = name, !.kubeconfig = file,
                            !.md = [InitialRecord(name, "v1", 1) EXCEPT
                                      !.hasApi = TRUE,
                                      !.api_address_inner = "inner",
                                      !.api_address_floating = "floating"]]
                    ELSE IdleProc]

\* Lines 371-383: the file is rewritten and stored in the record.
RewriteKubeconfig(a) ==
    /\ P(a).pc = "k_rewrite"
    /\ LET md == [P(a).md EXCEPT !.kubeconfig =
                      Rewrite(P(a).kubeconfig, Fqcn(P(a).name, Namespace),
                              P(a).md.api_address_floating)]
       IN  /\ nsRecord' = [nsRecord EXCEPT ![P(a).name] = md]
           /\ Set(a, [P(a) EXCEPT !.pc = "k_done", !.md = md])
    /\ UNCHANGED <<nsIndex, versionCache, longhornCache, now, networks,
                   instances, routes, env, epoch>>

NextRewrite == RewriteKubeconfig(1)

SpecRewrite == InitRewrite /\ [][NextRewrite]_vars

\* --------------------------------------- the deletion wait of k3s_delete

\* The record of a cluster of n instances, the first its control plane
\* node, the others workers, as k3s_create stores it after the last
\* instance.
FleetRecord(n) ==
    [InitialRecord("a", "v1", 1) EXCEPT
        !.node_serial = FirstSerial + n,
        !.control_plane_nodes = <<1>>,
        !.worker_nodes = [u \in 1..n - 1 |-> u + 1]]

\* k3s_delete of a cluster of up to MaxInst - 1 instances, some of which
\* may have been deleted behind the program's back.
InitGone ==
    /\ versionCache = NoCache
    /\ longhornCache = NoLonghornCache
    /\ now = TTL + 1
    /\ networks = <<"created">>
    /\ routes = <<>>
    /\ epoch = [n \in Names |-> IF n = "a" THEN 1 ELSE 0]
    /\ nsIndex = [has |-> TRUE, names |-> <<"a">>]
    /\ env \in [faults : 0..MaxFaults, slow : {TRUE}]
    /\ \E n \in 1..MaxInst - 1 :
          /\ nsRecord = [c \in Names |-> IF c = "a" THEN FleetRecord(n)
                                         ELSE NoRecord]
          /\ \E f \in [1..n -> {"created", "deleted"}] :
                instances = [u \in 1..n |->
                               IF f[u] = "created"
                               THEN [NewInstance("a", FirstSerial + u - 1, 1, 1)
                                       EXCEPT !.state = "created",
                                              !.agent_state = "ready"]
                               ELSE Dropped(NewInstance("a", FirstSerial + u - 1,
                                                        1, 1), "deleted")]
    /\ proc = [a \in Actors |->
                  IF a = 1
                  THEN [IdleProc EXCEPT !.pc = "d_getmd", !.cmd = "delete",
                                        !.name = "a"]
                  ELSE IdleProc]

NextGone ==
    \/ DeleteGetMd(1)
    \/ DeleteInst(1)
    \/ DeleteWait(1)
    \/ Settle

\* The process keeps running: while it waits, it polls again.
SpecGone ==
    InitGone /\ [][NextGone]_vars
             /\ WF_vars(DeleteGetMd(1) \/ DeleteInst(1) \/ DeleteWait(1))

\* ------------------------------------------------------------- properties

InIndex(n) == nsIndex.has /\ Contains(nsIndex.names, n)

\* The instances created for cluster name n in its lifetime ep, among the
\* first k the API handed out.
Built(n, ep, k) ==
    {u \in 1..k : instances[u].cluster = n /\ instances[u].epoch = ep}

\* C1: with a single actor, when k3s_create has completed successfully the
\* name is in the index and its stored record has state 'created'; when
\* k3s_delete has completed successfully the name is not in the index and
\* no record of it is stored.
CreateDeletePostconditions ==
    LET p == proc[1]
    IN  (p.pc = "exited" /\ p.outcome = "ok") =>
           /\ p.cmd = "create" =>
                 /\ InIndex(p.name)
                 /\ nsRecord[p.name].has
                 /\ nsRecord[p.name].state = "created"
           /\ p.cmd = "delete" =>
                 /\ ~InIndex(p.name)
                 /\ ~nsRecord[p.name].has

\* A cluster was created, and then deleted, both with success.
DeletedAfterCreated ==
    /\ proc[1].pc = "exited"
    /\ proc[1].cmd = "delete"
    /\ proc[1].outcome = "ok"
    /\ epoch[proc[1].name] > 0

\* Whether the process has passed the name check of k3s_create.
Registered(p) ==
    /\ p.cmd = "create"
    /\ p.pc \notin {"idle", "c_release", "c_check"}
    /\ ~(p.pc = "exited"
         /\ p.outcome \in {"feed_error", "unknown_channel", "name_taken"})

\* C2: of the k3s_create invocations for one name that are under way at
\* once, at most one passes the name check and registers the name.
ExclusiveReservation ==
    \A a, b \in Actors :
        (a # b /\ Registered(proc[a]) /\ Registered(proc[b])) =>
            proc[a].name # proc[b].name

\* C3 as amended: a k3s_create for a name that is in the index, or that has
\* a record, fails: with the name-taken error when version resolution
\* succeeds, with the resolver's error otherwise; and it leaves the index,
\* the records, the networks and the instances as they were.
TakenNameRefused ==
    LET p == proc[1]
    IN  (p.cmd = "create" /\ p.before.taken) =>
           /\ p.pc \in {"c_release", "c_check", "exited"}
           /\ p.pc = "exited" =>
                 p.outcome \in {"name_taken", "feed_error", "unknown_channel"}
           /\ nsIndex = p.before.index
           /\ nsRecord = p.before.records
           /\ networks = p.before.networks
           /\ instances = p.before.instances

\* A k3s_create for a taken name has ended with the name-taken error.
TakenNameExit ==
    /\ proc[1].pc = "exited"
    /\ proc[1].cmd = "create"
    /\ proc[1].before.taken
    /\ proc[1].outcome = "name_taken"

\* C3 as stated: every k3s_create for a taken name ends with the name-taken
\* error, the stores as they were.
TakenNameAlwaysNameTaken ==
    LET p == proc[1]
    IN  (p.pc = "exited" /\ p.cmd = "create" /\ p.before.taken) =>
           /\ p.outcome = "name_taken"
           /\ nsIndex = p.before.index
           /\ nsRecord = p.before.records
           /\ networks = p.before.networks
           /\ instances = p.before.instances

\* C4: between the invocations of a single actor, however they ended, a
\* name is in the index if and only if a record of it is stored.
IndexMatchesRecords ==
    proc[1].pc \in {"idle", "exited"} =>
        \A n \in Names : InIndex(n) <=> nsRecord[n].has

\* C5: the k-th instance created in the lifetime of a cluster, by k3s_create
\* or by an expansion, has the k-th serial in its name, so no two have the
\* same name; and the stored serial is one past the last used.
SerialCountsInstances ==
    /\ \A u \in 1..Len(instances) :
          instances[u].node_name =
             NodeName(instances[u].cluster,
                      FirstSerial + Cardinality(Built(instances[u].cluster,
                                                      instances[u].epoch, u - 1)))
    /\ \A u, v \in 1..Len(instances) :
          (u # v /\ instances[u].cluster = instances[v].cluster
                 /\ instances[u].epoch = instances[v].epoch) =>
              instances[u].node_name # instances[v].node_name
    /\ \A n \in Names :
          (nsRecord[n].has /\ proc[1].pc \notin {"c_persist", "e_persist"}) =>
              nsRecord[n].node_serial =
                 FirstSerial + Cardinality(Built(n, epoch[n], Len(instances)))

\* An expansion has added the third instance of a cluster.
ExpandedToThree ==
    /\ proc[1].cmd = "expand"
    /\ proc[1].pc = "exited"
    /\ proc[1].outcome = "ok"
    /\ \E u \in 1..Len(instances) :
          /\ u \in Range(proc[1].new_nodes)
          /\ instances[u].node_name = NodeName(proc[1].name, FirstSerial + 2)

\* C6: no two instances created for one cluster name, in whichever of its
\* lifetimes, have the same serial and node name.
NoSerialReuseAcrossRebuild ==
    \A u, v \in 1..Len(instances) :
        (u # v /\ instances[u].cluster = instances[v].cluster) =>
            instances[u].node_name # instances[v].node_name

\* C7: the operations of every batch that returned completed with return
\* code 0; a process that ended on a failed command reports the command and
\* the return code of the first operation of its last batch that failed,
\* the operations before it are still there, complete; and an expansion
\* ended so has submitted nothing after that batch to its new instances.
BatchFailureAborts ==
    LET p == proc[1]
    IN  /\ \A k \in 1..Len(p.earlier) :
               /\ Op(p.earlier[k]).state = "complete"
               /\ Op(p.earlier[k]).rc = 0
        /\ p.outcome = "command_failed" =>
              /\ p.pc = "exited"
              /\ \E k \in 1..Len(p.aops) :
                    /\ Op(p.aops[k]).state = "complete"
                    /\ Op(p.aops[k]).rc # 0
                    /\ p.report = [instance |-> p.aops[k][1], op |-> p.aops[k][2],
                                   command |-> Op(p.aops[k]).cmd,
                                   rc |-> Op(p.aops[k]).rc]
                    /\ \A j \in 1..(k - 1) :
                          /\ Op(p.aops[j]).state = "complete"
                          /\ Op(p.aops[j]).rc = 0
              /\ p.cmd = "expand" =>
                    \A u \in Range(p.new_nodes) :
                        \A k \in 1..Len(instances[u].ops) :
                            <<u, k>> \in Range(p.earlier) \cup Range(p.aops)

\* An expansion has ended on a command of execute_and_await that returned a
\* non-zero code.
ExpandCommandFailed ==
    /\ proc[1].pc = "exited"
    /\ proc[1].cmd = "expand"
    /\ proc[1].outcome = "command_failed"

\* C8: k3s_create has not ended with success, the record 'created', in a
\* run in which a command it sent to an instance returned non-zero.
NoFailureSwallowed ==
    LET p == proc[1]
    IN  (p.pc = "exited" /\ p.cmd = "create" /\ p.outcome = "ok") =>
           \A u \in Range(AllNodes(p.md)) :
               \A k \in 1..Len(instances[u].ops) : instances[u].ops[k].rc = 0

\* C9: reap_execute, once the operation it waits for is complete or in
\* error, does not wait for it for ever.
ReapTerminates ==
    \A k \in 1..2 :
        (/\ proc[1].pc = "x_reap"
         /\ proc[1].i = k
         /\ Op(proc[1].aops[k]).state \in {"complete", "error"})
        ~> ~(proc[1].pc = "x_reap" /\ proc[1].i = k)

\* C10: while await_boot waits, every instance of its input that is out of
\* the wait set was found created with its agent ready, and the wait set
\* is part of the input; once it has returned, every instance was.
BootObserved ==
    LET p == proc[1]
        seenReady(u) == /\ instances[u].state = "created"
                        /\ instances[u].agent_state = "ready"
    IN  /\ p.pc \in {"c_boot", "p_boot"} =>
               /\ Range(p.waiting) \subseteq Range(p.new_nodes)
               /\ p.waiting # <<>>
               /\ \A u \in Range(p.new_nodes) \ Range(p.waiting) : seenReady(u)
        /\ (/\ p.cmd \in {"create", "expand"}
            /\ p.pc \notin {"e_inst", "e_persist", "c_boot", "p_boot"}) =>
               \A u \in Range(p.new_nodes) : seenReady(u)

\* await_boot has returned from waiting for two instances.
BootReturned ==
    /\ proc[1].cmd = "create"
    /\ proc[1].pc = "c_addr"
    /\ Len(proc[1].new_nodes) = 2

\* Whether the process is in the wait loop of await_boot or _await_boot.
InBootLoop(p) == p.pc \in {"c_boot", "p_boot"}

\* C11: the wait loop of await_boot ends at no step but one that leaves
\* every instance of its input found created with its agent ready; while
\* it waits another poll is always there to take; and once every instance
\* is found ready from then on, the loop ends.
AwaitBootUnbounded ==
    /\ [][(InBootLoop(proc[1]) /\ ~InBootLoop(proc[1]')) =>
             \A u \in Range(proc[1].new_nodes) :
                /\ instances'[u].state = "created"
                /\ instances'[u].agent_state = "ready"]_vars
    /\ [](InBootLoop(proc[1]) => ENABLED (CreateBoot(1) \/ PrimBoot(1)))
    /\ ((InBootLoop(proc[1]) /\ ~env.slow) ~> ~InBootLoop(proc[1]))

\* The wait loop has ended for two instances, once every instance was
\* found ready.
BootLoopEnded ==
    /\ ~InBootLoop(proc[1])
    /\ ~env.slow
    /\ Len(proc[1].new_nodes) >= 2

\* Whether await_boot has returned in the invocation: in k3s_create the
\* wait loop is over; in an expansion the OS update batch has returned too.
Booted(p) ==
    \/ p.cmd = "create" /\ p.new_nodes # <<>> /\ p.pc # "c_boot"
    \/ p.cmd = "expand" /\ p.earlier # <<>>

\* C12: once await_boot has returned, every instance of its input has been
\* sent the OS update commands, and each of them is complete with return
\* code 0.
PatchedWhenBooted ==
    Booted(proc[1]) =>
        \A u \in Range(proc[1].new_nodes) :
            \A c \in 1..OsUpdateCmds :
                \E k \in 1..Len(instances[u].ops) :
                    /\ instances[u].ops[k].cmd = <<"os", c>>
                    /\ instances[u].ops[k].state = "complete"
                    /\ instances[u].ops[k].rc = 0

\* C13: await_idle, in the middle of a pass, still waits for an instance it
\* has looked at in this pass only if one of the instance's operations has
\* yet to end.
IdleWaitsForRunningOnly ==
    proc[1].pc = "x_idle" =>
        \A u \in Range(proc[1].waiting) \ Range(proc[1].todo) :
            \E k \in 1..Len(instances[u].ops) :
                instances[u].ops[k].state = "queued"

\* C14: _await_fetch does not go on waiting for an operation it has fetched
\* in state error.
FetchStopsOnError ==
    proc[1].pc \in {"c_fetch_kc", "c_fetch_tok"} => proc[1].seen # "error"

\* C15: an instance holds an operation of a later batch only when each of
\* its operations of an earlier batch has ended.
NoPipelining ==
    \A u \in 1..Len(instances) :
        \A j, k \in 1..Len(instances[u].ops) :
            (j < k /\ instances[u].ops[j].cmd[1] # instances[u].ops[k].cmd[1]) =>
                instances[u].ops[j].state # "queued"

\* The instances that exist and are not in a role list of the stored record
\* of their cluster.
Unlisted ==
    {u \in 1..Len(instances) :
        /\ instances[u].state # "deleted"
        /\ u \notin Range(nsRecord[instances[u].cluster].control_plane_nodes)
        /\ u \notin Range(nsRecord[instances[u].cluster].worker_nodes)}

\* C16: at every point at most one instance exists that the stored record
\* of its cluster does not list.
AtMostOneUnlisted == Cardinality(Unlisted) <= 1

\* The second instance of a fleet has been created and is not stored yet.
SecondInstancePending ==
    /\ proc[1].pc \in {"c_persist", "e_persist"}
    /\ Len(AllNodes(nsRecord[proc[1].name])) >= 1
    /\ Cardinality(Unlisted) = 1

\* C17: between invocations, every floating address routed to a network is
\* in the routed_addresses of a stored record.
RoutedArePersisted ==
    proc[1].pc = "exited" =>
        \A r \in 1..Len(routes) :
            routes[r] # 0 =>
                \E n \in Names :
                    /\ nsRecord[n].has
                    /\ nsRecord[n].hasRouted
                    /\ r \in Range(nsRecord[n].routed_addresses)

\* C18: k3s_delete does not wait for an instance it has found deleted or
\* not found, and an invocation that found the record ends with the record
\* and the index entry removed, on nothing worse than a kubectl failure.
TeardownToleratesGone ==
    LET p == proc[1]
    IN  p.cmd = "delete" =>
           /\ \A u \in Range(p.waiting) : instances[u].state # "deleted"
           /\ (p.pc = "exited" /\ p.outcome # "unknown_cluster") =>
                 /\ p.outcome \in {"ok", "kubectl_failed"}
                 /\ ~nsRecord[p.name].has
                 /\ ~InIndex(p.name)

\* k3s_delete has ended with success although an instance of the cluster
\* was not found when its deletion was to be requested.
DeletedThoughGone ==
    /\ proc[1].pc = "exited"
    /\ proc[1].cmd = "delete"
    /\ proc[1].outcome = "ok"
    /\ proc[1].gone > 0

\* The stored state of the record of n; none without a record.
StateOf(rec) == IF rec.has THEN rec.state ELSE "none"

\* C19: the stored state is initial, created or deleted; it moves from none
\* to initial, from initial to created, from initial or created to deleted,
\* and a record stored as deleted is the next thing the teardown removes.
StateMoves ==
    /\ [](\A n \in Names :
             /\ StateOf(nsRecord[n]) \in {"none", "initial", "created", "deleted"}
             /\ StateOf(nsRecord[n]) = "deleted" =>
                   (proc[1].cmd = "delete" /\ proc[1].pc = "d_record"
                                           /\ proc[1].name = n))
    /\ [][\A n \in Names :
             \/ StateOf(nsRecord[n]') = StateOf(nsRecord[n])
             \/ <<StateOf(nsRecord[n]), StateOf(nsRecord[n]')>> \in
                   {<<"none", "initial">>, <<"initial", "created">>,
                    <<"initial", "deleted">>, <<"created", "deleted">>,
                    <<"deleted", "none">>}]_vars

\* A cluster that was created in full is torn down: its record is stored as
\* deleted.
CreatedMarkedDeleted ==
    /\ proc[1].cmd = "delete"
    /\ proc[1].pc = "d_record"
    /\ nsRecord[proc[1].name].state = "deleted"
    /\ proc[1].snapIndex.has
    /\ proc[1].md.hasRouted

\* The ways k3s_create ends before the record is initialised.
EarlyExits == {"feed_error", "unknown_channel", "name_taken", "no_network"}

\* C20: a k3s_create that has aborted after the record was initialised
\* leaves the name in the index and the record stored in state initial,
\* listing every instance the run created; and while k3s_create runs, or
\* has aborted, with its record initialised, the stored state is initial:
\* created is written by nothing but the last step of a run that got there.
AbortKeepsProgress ==
    LET p == proc[1]
    IN  /\ (p.cmd = "create" /\ p.pc = "exited"
                             /\ p.outcome \notin EarlyExits \cup {"ok"}) =>
           /\ InIndex(p.name)
           /\ nsRecord[p.name].has
           /\ nsRecord[p.name].state = "initial"
           /\ nsRecord[p.name].name = p.name
           /\ nsRecord[p.name].control_plane_nodes = p.md.control_plane_nodes
           /\ nsRecord[p.name].worker_nodes = p.md.worker_nodes
           /\ nsRecord[p.name].node_network = p.md.node_network
           /\ nsRecord[p.name].node_serial = p.md.node_serial
           /\ \A u \in Range(AllNodes(p.md)) : instances[u].state # "deleted"
        /\ (p.cmd = "create" /\ p.md.has
                             /\ ~(p.pc = "exited" /\ p.outcome = "ok")) =>
               /\ nsRecord[p.name].has
               /\ nsRecord[p.name].state = "initial"

\* k3s_create has aborted on a failed command, its instances running.
CreateAbortedMidway ==
    /\ proc[1].cmd = "create"
    /\ proc[1].pc = "exited"
    /\ proc[1].outcome = "command_failed"
    /\ proc[1].md.control_plane_nodes # <<>>

\* C23: k3s_create begins with the version lookup, which writes nothing
\* but the version cache; an invocation for a free name that has ended on
\* an unknown release channel has left the name out of the index and
\* without a record, and no network, instance or route was made.
ReleaseFirst ==
    /\ [][(proc[1].pc = "idle" /\ proc'[1].cmd = "create") =>
             /\ proc'[1].pc = "c_release"
             /\ UNCHANGED <<nsIndex, nsRecord, networks, instances, routes>>]_vars
    /\ [][proc[1].pc = "c_release" =>
             UNCHANGED <<nsIndex, nsRecord, networks, instances, routes>>]_vars
    /\ []((/\ proc[1].cmd = "create"
           /\ proc[1].pc = "exited"
           /\ proc[1].outcome = "unknown_channel"
           /\ ~proc[1].before.taken) =>
              /\ ~InIndex(proc[1].name)
              /\ ~nsRecord[proc[1].name].has
              /\ proc[1].md = NoRecord)

\* k3s_create for a free name has ended on an unknown release channel.
UnknownChannelExit ==
    /\ proc[1].cmd = "create"
    /\ proc[1].pc = "exited"
    /\ proc[1].outcome = "unknown_channel"
    /\ ~proc[1].before.taken

\* C26: the node network is deleted in a step of k3s_delete before which
\* every instance of the cluster has been found deleted or not found and
\* no address of the stored routed_addresses is routed to the network, the
\* record still stored and indexed; the record is stored as deleted only
\* with its network deleted, and the name leaves the index only with the
\* record removed.
TeardownLinear ==
    /\ [][\A n \in 1..Len(networks) :
             (networks[n] # "deleted" /\ networks'[n] = "deleted") =>
                LET p == proc[1]
                    rec == nsRecord[p.name]
                IN  /\ p.cmd = "delete"
                    /\ rec.has
                    /\ rec.state # "deleted"
                    /\ rec.node_network = n
                    /\ InIndex(p.name)
                    /\ \A u \in 1..Len(instances) :
                          instances[u].cluster = p.name =>
                             instances[u].state = "deleted"
                    /\ rec.hasRouted =>
                          \A k \in 1..Len(rec.routed_addresses) :
                             routes[rec.routed_addresses[k]] # n]_vars
    /\ [][\A c \in Names :
             /\ (StateOf(nsRecord[c]) # "deleted"
                 /\ StateOf(nsRecord'[c]) = "deleted") =>
                   /\ proc[1].md.node_network = 0
                   /\ nsRecord[c].node_network # 0 =>
                         networks[nsRecord[c].node_network] = "deleted"
             /\ (InIndex(c) /\ ~(nsIndex'.has /\ Contains(nsIndex'.names, c))) =>
                   ~nsRecord[c].has]_vars

\* k3s_delete has deleted the node network of a cluster that had an address
\* routed and two instances.
NetworkReleased ==
    /\ proc[1].cmd = "delete"
    /\ proc[1].pc = "d_mark"
    /\ proc[1].md.hasRouted
    /\ proc[1].md.routed_addresses # <<>>
    /\ Cardinality({u \in 1..Len(instances) :
                      instances[u].cluster = proc[1].name}) >= 2

\* C29: the record k3s_delete stores between the deletion of the instances
\* and the release of the network has empty role lists and holds nothing of
\* what k3s_create stored as api_address_inner, api_address_floating,
\* kubeconfig and node_token.
CheckpointEmptied ==
    LET p == proc[1]
        rec == nsRecord[p.name]
    IN  (p.cmd = "delete" /\ p.pc = "d_unroute") =>
           /\ rec.has
           /\ InIndex(p.name)
           /\ rec.control_plane_nodes = <<>>
           /\ rec.worker_nodes = <<>>
           /\ rec.kubeconfig = "None"
           /\ rec.node_token = "None"
           /\ rec.hasApi => /\ rec.api_address_inner = "None"
                            /\ rec.api_address_floating = "None"

\* C30: when two invocations of k3s_create for different names have both
\* ended with success, both names are in the index.
NoLostIndexUpdate ==
    (/\ \A a \in Actors : /\ proc[a].cmd = "create"
                          /\ proc[a].pc = "exited"
                          /\ proc[a].outcome = "ok"
     /\ proc[1].name # proc[2].name) =>
        \A a \in Actors : InIndex(proc[a].name)

\* C25: the stored index is never an empty list; a k3s_delete that writes
\* the index finds its name in it, and leaves the names it held without
\* that name, or no index key when no name is left.
IndexNeverEmpty ==
    /\ [](nsIndex.has => nsIndex.names # <<>>)
    /\ [][(nsIndex' # nsIndex /\ proc[1].cmd = "delete") =>
             LET held == nsIndex.names
                 left == SelectSeq(held, LAMBDA n : n # proc[1].name)
             IN  /\ nsIndex.has
                 /\ \E k \in 1..Len(held) : held[k] = proc[1].name
                 /\ left = <<>> => ~nsIndex'.has
                 /\ left # <<>> => (nsIndex'.has /\ nsIndex'.names = left)]_vars

\* k3s_delete has taken its name out of an index that held another name.
IndexRewritten ==
    /\ proc[1].cmd = "delete"
    /\ proc[1].pc = "d_local"
    /\ nsIndex.has
    /\ ~nsRecord[proc[1].name].has

\* Whether a lookup that begins now is to refresh the cache: a refresh is
\* forced, or nothing is cached, or what is cached is older than 24 hours.
RefreshDue == proc[1].force \/ ~versionCache.has \/ now - versionCache.updated > 24

\* The step in which the lookup runs.
LookupStep == proc[1].pc = "c_release" /\ proc'[1].pc # "c_release"

\* C21: a lookup with a refresh due fetches the listing and stores it with
\* 'updated' the current time, or ends on the failure of the fetch with the
\* cache as it was; a lookup with none due fetches nothing and leaves the
\* cache as it was.
RefreshWhenDue ==
    [][LookupStep =>
         /\ RefreshDue =>
               \/ versionCache' = [has |-> TRUE, updated |-> now, releases |-> Feed]
               \/ /\ proc'[1].outcome = "feed_error"
                  /\ versionCache' = versionCache
                  /\ env'.faults < env.faults
         /\ ~RefreshDue =>
               /\ versionCache' = versionCache
               /\ env' = env
               /\ proc'[1].outcome # "feed_error"]_vars

\* A lookup has refreshed a cache that an earlier one had stored.
CacheRefreshedAgain ==
    /\ proc[1].cmd = "release"
    /\ proc[1].pc = "exited"
    /\ proc[1].outcome = "ok"
    /\ ~proc[1].force
    /\ versionCache.updated = now
    /\ now > 2 * TTL + 1

\* C21, as stated: a lookup that has ended leaves a cache no older than 24
\* hours, and one with a forced refresh a cache stored at the current time.
LookupLeavesFreshCache ==
    (proc[1].cmd = "release" /\ proc[1].pc = "exited") =>
        /\ versionCache.has
        /\ now - versionCache.updated <= 24
        /\ proc[1].force => versionCache.updated = now

\* C22: a lookup that has not failed on the fetch ends on the
\* unknown-channel error exactly when the channel is not in the mapping it
\* has then; with a cache no older than 24 hours and no refresh forced, a
\* channel not in the cache ends it so with nothing fetched and the cache
\* as it was.
MissFailsWithoutRefresh ==
    [][LookupStep =>
         /\ proc'[1].outcome # "feed_error" =>
               (proc'[1].outcome = "unknown_channel"
                  <=> proc[1].chan \notin DOMAIN versionCache'.releases)
         /\ (/\ ~proc[1].force
             /\ versionCache.has
             /\ now - versionCache.updated <= 24
             /\ proc[1].chan \notin DOMAIN versionCache.releases) =>
               /\ proc'[1].outcome = "unknown_channel"
               /\ versionCache' = versionCache
               /\ env' = env]_vars

\* A lookup of an unknown channel has ended on a cache stored hours before.
MissOnFreshCache ==
    /\ proc[1].cmd = "release"
    /\ proc[1].pc = "exited"
    /\ proc[1].outcome = "unknown_channel"
    /\ ~proc[1].force
    /\ versionCache.has
    /\ versionCache.updated < now

\* Whether k3s_delete is in its deletion wait with an instance to wait for.
InDeletionWait(p) ==
    p.cmd = "delete" /\ p.pc = "d_delete" /\ p.pending = {} /\ p.waiting # <<>>

\* C27: while k3s_delete asks for the deletions the wait set holds, once
\* each, the instances it found and requested the deletion of; afterwards
\* the set only shrinks, and an instance leaves it only in a step that
\* found it deleted or not found; once every instance is so found from
\* then on, the wait ends.
WaitSetShrinks ==
    /\ [](LET p == proc[1]
          IN  (p.cmd = "delete" /\ p.pc = "d_delete") =>
                 /\ \A j, k \in 1..Len(p.waiting) :
                       p.waiting[j] = p.waiting[k] => j = k
                 /\ \A u \in Range(p.waiting) :
                       /\ u \in Range(p.md.control_plane_nodes)
                             \cup Range(p.md.worker_nodes)
                       /\ u \notin p.pending
                       /\ instances[u].state # "created"
                 /\ p.pending # {} =>
                       Len(p.waiting) + p.gone =
                          Cardinality((Range(p.md.control_plane_nodes)
                                         \cup Range(p.md.worker_nodes))
                                      \ p.pending))
    /\ [][(proc[1].cmd = "delete" /\ proc[1].pc = "d_delete"
                                  /\ proc[1].pending = {}) =>
             /\ Range(proc'[1].waiting) \subseteq Range(proc[1].waiting)
             /\ \A u \in Range(proc[1].waiting) \ Range(proc'[1].waiting) :
                   instances'[u].state = "deleted"]_vars
    /\ ((InDeletionWait(proc[1]) /\ ~env.slow) ~> ~InDeletionWait(proc[1]))

\* The wait of k3s_delete for two instances, both found when their deletion
\* was requested, has ended.
WaitEnded ==
    /\ proc[1].cmd = "delete"
    /\ proc[1].pc = "d_delete"
    /\ proc[1].pending = {}
    /\ proc[1].waiting = <<>>
    /\ proc[1].gone = 0
    /\ Len(proc[1].md.worker_nodes) >= 1
    /\ \A u \in 1..Len(instances) : instances[u].state = "deleted"

\* A text with every "127.0.0.1" in it replaced by the address.
Swapped(v, floating) ==
    [i \in 1..Len(v) |-> IF v[i] = "127.0.0.1" THEN floating ELSE v[i]]

\* C24: in the kubeconfig k3s_create stores, the names of the first
\* cluster, context and user, the cluster and user of the first context and
\* the current context are name.namespace; every other leaf is the leaf of
\* the fetched file with 127.0.0.1 replaced by the floating address; the
\* lists are as long as they were.
KubeconfigRewritten ==
    LET p == proc[1]
        src == p.kubeconfig
        out == p.md.kubeconfig
        fqcn == <<p.name, ".", "ns">>
        fl == p.md.api_address_floating
    IN  p.pc = "k_done" =>
           /\ nsRecord[p.name].kubeconfig = out
           /\ out.clusters[1].name = fqcn
           /\ out.contexts[1].name = fqcn
           /\ out.contexts[1].cluster = fqcn
           /\ out.contexts[1].user = fqcn
           /\ out.users[1].name = fqcn
           /\ out.current = fqcn
           /\ Len(out.clusters) = Len(src.clusters)
           /\ Len(out.contexts) = Len(src.contexts)
           /\ Len(out.users) = Len(src.users)
           /\ \A i \in 1..Len(src.clusters) :
                 /\ out.clusters[i].server = Swapped(src.clusters[i].server, fl)
                 /\ i > 1 => out.clusters[i].name = Swapped(src.clusters[i].name, fl)
           /\ \A i \in 2..Len(src.contexts) :
                 /\ out.contexts[i].name = Swapped(src.contexts[i].name, fl)
                 /\ out.contexts[i].cluster = Swapped(src.contexts[i].cluster, fl)
                 /\ out.contexts[i].user = Swapped(src.contexts[i].user, fl)
           /\ \A i \in 2..Len(src.users) :
                 out.users[i].name = Swapped(src.users[i].name, fl)

\* The kubeconfig of two clusters, as k3s writes it, has been rewritten.
KubeconfigStored ==
    /\ proc[1].pc = "k_done"
    /\ proc[1].kubeconfig.layout = "k3s"
    /\ Len(proc[1].kubeconfig.clusters) = 2
    /\ proc[1].kubeconfig.clusters[1].name = <<"default">>
    /\ proc[1].md.kubeconfig.clusters[1].server = <<"https://", "floating", ":6443">>

\* The operations that are join commands: the join of k3s_create and the
\* installer command of install_k3s_component.
JoinOps ==
    UNION {{<<u, k>> : k \in {j \in 1..Len(instances[u].ops) :
                                 \/ instances[u].ops[j].cmd[1] = "join"
                                 \/ instances[u].ops[j].cmd = <<"component", 3>>}} :
              u \in 1..Len(instances)}

\* C28: a join command goes to a node only with the token that was fetched
\* from the primary control plane node and stored in the record, and never
\* to the primary node control_plane_nodes[0] of a cluster.
JoinAfterToken ==
    \A id \in JoinOps :
       /\ Op(id).token = "token"
       /\ \A n \in Names :
             nsRecord[n].control_plane_nodes # <<>> =>
                id[1] # nsRecord[n].control_plane_nodes[1]

\* C31: the step of k3s_delete that comes to the network with node_network
\* set in the record leaves that network deleted, the one --network named
\* (the network there was before any invocation) as much as one k3s_create
\* allocated; and a record has the fields k3s_create and k3s_delete write,
\* none of which tells where the network came from.
GivenNetworkDeleted ==
    /\ [][(/\ proc[1].cmd = "delete"
           /\ proc[1].pc = "d_unroute"
           /\ proc'[1].pc = "d_mark"
           /\ proc[1].md.node_network # 0)
          => /\ networks'[proc[1].md.node_network] = "deleted"
             /\ proc'[1].md.node_network = 0]_vars
    /\ [](\A n \in Names :
             DOMAIN nsRecord[n] =
                {"has", "name", "state", "k3s_version", "node_serial",
                 "node_network", "node_token", "control_plane_nodes",
                 "worker_nodes", "hasApi", "api_address_inner",
                 "api_address_floating", "api_inner_address",
                 "api_floating_address", "kubeconfig", "hasRouted",
                 "routed_addresses", "server_token"})

\* k3s_delete has deleted the network that was there before any invocation
\* and that k3s_create was given.
GivenNetworkGone ==
    /\ proc[1].cmd = "delete"
    /\ proc[1].pc = "d_mark"
    /\ Len(networks) = 1
    /\ networks[1] = "deleted"

\* A lookup of a release is under way.
InLookup(p) == p.pc \in {"c_release", "l_read", "l_page", "l_store"}

\* C32: a lookup that ends on a status of the feed that is not a success
\* has written no version cache: the step that ends it leaves both caches as
\* they are, and so does every step of the lookup before the one that
\* stores the result.
FailedFeedKeepsCache ==
    /\ [][(/\ InLookup(proc[1])
           /\ proc'[1].pc = "exited"
           /\ proc'[1].outcome = "feed_error")
          => /\ versionCache' = versionCache
             /\ longhornCache' = longhornCache]_vars
    /\ [][proc[1].pc \in {"l_read", "l_page"}
          => /\ versionCache' = versionCache
             /\ longhornCache' = longhornCache]_vars

\* A forced lookup, begun with a cache written 24 hours ago, has ended on
\* the feed's status.
ForcedLookupFailed ==
    /\ proc[1].pc = "exited"
    /\ proc[1].outcome = "feed_error"
    /\ proc[1].cmd = "release"
    /\ proc[1].force
    /\ versionCache.has
    /\ versionCache.updated = 1

====
